---- MODULE Spec2Model ----
(***************************************************************************)
(* Case-based message composition engine of MASTERCELL NGX                 *)
(* (eeprom_cases.c, with its callers in main.c and inputs.c).              *)
(*                                                                         *)
(* C arrays are 0-based; the 8-byte arrays (data, must_be_on, must_be_off) *)
(* are TLA+ sequences, so C index k is sequence index k + 1.               *)
(***************************************************************************)
EXTENDS Integers, Sequences, FiniteSets, TLC

(***************************************************************************)
(* Program constants (eeprom_cases.h, inlink.h)                            *)
(***************************************************************************)
TOTAL_INPUTS == 44
EEPROM_CASES_START == 34
EEPROM_OFF_CASES_START == 3426
EEPROM_SIZE == 4096
CASE_SIZE == 32
MAX_ON_CASES_PER_INPUT == 8
MAX_OFF_CASES_PER_INPUT == 2
MAX_UNIQUE_MESSAGES == 24
MAX_INLINK_MESSAGES == 16
INVALID_ADDRESS == 65535
NO_INPUT == 255
PATTERN_STATE_INACTIVE == 0
PATTERN_STATE_ON_PHASE == 1
PATTERN_STATE_OFF_PHASE == 2
BROADCAST_REASON_PATTERN_TICK == 0
BROADCAST_REASON_STATE_CHANGE == 1

(***************************************************************************)
(* Bounds of the model.  MAX_ACTIVE_CASES is 64 in eeprom_cases.h; the     *)
(* model keeps the name and scales the capacity down so that a full list   *)
(* is reached with the few inputs the model drives.                        *)
(***************************************************************************)
MAX_ACTIVE_CASES == 2
MaxBoundsErrors == 1
MaxNibble == 3
MaxTicks == 12

(***************************************************************************)
(* Byte arithmetic                                                         *)
(***************************************************************************)
RECURSIVE BitAndN(_, _, _)
BitAndN(a, b, n) ==
    IF n = 0 THEN 0
    ELSE (IF a % 2 = 1 /\ b % 2 = 1 THEN 1 ELSE 0)
         + 2 * BitAndN(a \div 2, b \div 2, n - 1)

BitAnd(a, b) == BitAndN(a, b, 8)

\* (x & bit) != 0 for a single-bit mask
TestBit(x, bit) == (x \div bit) % 2 = 1

BitOr(a, b) == a + b - BitAnd(a, b)

BitNot8(a) == 255 - a

Pow2(k) == CASE k = 0 -> 1 [] k = 1 -> 2 [] k = 2 -> 4 [] k = 3 -> 8
             [] k = 4 -> 16 [] k = 5 -> 32 [] k = 6 -> 64 [] k = 7 -> 128

Zero8 == <<0, 0, 0, 0, 0, 0, 0, 0>>

\* an accumulation that keeps only the latest operand
TakeLatest8(x, y) == y

Or8(x, y) == [k \in 1..8 |-> BitOr(x[k], y[k])]

AndNot8(x, m) == [k \in 1..8 |-> BitAnd(x[k], BitNot8(m[k]))]

(***************************************************************************)
(* Layout tables (eeprom_cases.c), indexed by input number + 1             *)
(***************************************************************************)
input_on_case_count ==
    << 4, 2, 4, 4, 2, 6, 1, 6,
       1, 2, 2, 2, 2, 2, 6, 2,
       2, 6, 2, 2, 2, 2, 6, 6,
       2, 2, 2, 2, 2, 2, 2, 2,
       1, 1, 1, 1, 1, 1,
       2, 2, 1, 1, 1, 1 >>

input_off_case_count ==
    << 2, 2, 0, 0, 0, 0, 0, 0,
       0, 0, 0, 0, 0, 0, 0, 0,
       0, 0, 0, 0, 0, 0, 0, 0,
       2, 2, 2, 2, 2, 2, 2, 2,
       0, 0, 0, 0, 0, 0,
       0, 0, 0, 0, 0, 0 >>

on_case_offsets ==
    << 0, 128, 192, 320, 448, 512, 704, 736,
       928, 960, 1024, 1088, 1152, 1216, 1280, 1472,
       1536, 1600, 1792, 1856, 1920, 1984, 2048, 2240,
       2432, 2496, 2560, 2624, 2688, 2752, 2816, 2880,
       2944, 2976, 3008, 3040, 3072, 3104, 3136, 3200,
       3264, 3296, 3328, 3360 >>

off_case_offsets ==
    << 0, 64, 65535, 65535, 65535, 65535, 65535, 65535,
       65535, 65535, 65535, 65535, 65535, 65535, 65535, 65535,
       65535, 65535, 65535, 65535, 65535, 65535, 65535, 65535,
       160, 224, 288, 352, 416, 480, 544, 608,
       65535, 65535, 65535, 65535, 65535, 65535, 65535, 65535,
       65535, 65535, 65535, 65535 >>

VARIABLES
    eeprom,             \* persistent store: byte address -> byte (erased = 0xFF)
    active_cases,       \* ActiveCase active_cases[MAX_ACTIVE_CASES]
    active_case_count,  \* uint8_t active_case_count
    pattern_timers,     \* PatternTimer pattern_timers[TOTAL_INPUTS]
    bounds_errors,      \* uint16_t bounds_errors
    input_states,       \* inputs.c: input_states[INPUT_COUNT]
    ignition_flag,      \* inputs.c: ignition_flag
    can_ignition_state, \* inputs.c: can_ignition_state
    one_button_states,  \* inputs.c: one_button_states[], the entry of the one-button-start input
    inlink_messages,    \* inlink.c: inlink_messages[MAX_INLINK_MESSAGES]
    can_config,         \* can_config.c: the cached configuration and the counters
    eeprom_config,      \* eeprom_config.c: byte_read_count, byte_write_count, write_failures
    eeprom_init,        \* eeprom_init: write_errors, words_written, last_error_type, write_attempts
    config_response,    \* the frame last handed to J1939_TransmitMessage by CAN_Config_SendResponse
    config_request,     \* history: the frame last given to CAN_Config_ProcessMessage, and its result
    prev_messages,      \* main.c: prev_messages[0 .. prev_msg_count-1]
    pattern_changed,    \* main.c: volatile flag set by the timer interrupt
    state_changed,      \* main.c: volatile flag set by the foreground loop
    prev_input_states,  \* main.c: prev_input_states[44]
    pc,                 \* position of the foreground loop of main()
    fg,                 \* locals of the foreground call in progress, calls still to make
    cycle,              \* history: what the last transmit cycle changed, sent and pruned
    ticks,              \* history: Tick calls since the observed timer was armed (SpecFlash: in its phase)
    call                \* history: the engine call just made with its arguments and result

EngineVars == << active_cases, active_case_count, pattern_timers, bounds_errors >>

ConfigVars == << can_config, eeprom_config, eeprom_init, config_response, config_request >>

InputVars == << input_states, ignition_flag, can_ignition_state, one_button_states, inlink_messages, ConfigVars >>

MainVars == << prev_messages, pattern_changed, state_changed, prev_input_states, pc, fg >>

HistVars == << cycle, ticks, call >>

vars == << eeprom, EngineVars, InputVars, MainVars, HistVars >>

(***************************************************************************)
(* Persistent store                                                        *)
(***************************************************************************)
\* ReadEEPROMWord: the 16-bit word that holds byte_address, low byte first
ReadEEPROMWord(byte_address) ==
    IF byte_address >= EEPROM_SIZE THEN 65535
    ELSE LET word_address == byte_address - (byte_address % 2)
         IN  eeprom[word_address] + 256 * eeprom[word_address + 1]

\* ReadEEPROMByte: the high byte of the word for an odd address, else the low
ReadEEPROMByte(byte_address) ==
    IF byte_address >= EEPROM_SIZE THEN 255
    ELSE IF byte_address % 2 = 1 THEN (ReadEEPROMWord(byte_address) \div 256) % 256
    ELSE ReadEEPROMWord(byte_address) % 256

ReadEEPROMByteErr(byte_address) ==
    IF byte_address >= EEPROM_SIZE THEN 1 ELSE 0

(***************************************************************************)
(* Case Store: EEPROM_GetCaseAddress and EEPROM_ReadCase                   *)
(***************************************************************************)
\* an address computed with the ON region's base and offsets for both kinds
RawCaseAddressOnRegion(input_num, case_num, is_on_case) ==
    EEPROM_CASES_START + on_case_offsets[input_num + 1] + case_num * CASE_SIZE

\* the address computed before the range and alignment checks
RawCaseAddress(input_num, case_num, is_on_case) ==
    IF is_on_case
    THEN EEPROM_CASES_START + on_case_offsets[input_num + 1] + case_num * CASE_SIZE
    ELSE EEPROM_OFF_CASES_START + off_case_offsets[input_num + 1] + case_num * CASE_SIZE

AddressRejected(address) ==
    \/ address >= EEPROM_SIZE
    \/ (address < EEPROM_CASES_START /\ address < EEPROM_OFF_CASES_START)
    \/ address % 2 = 1

EEPROM_GetCaseAddress(input_num, case_num, is_on_case) ==
    IF input_num >= TOTAL_INPUTS THEN INVALID_ADDRESS
    ELSE IF is_on_case /\ case_num >= input_on_case_count[input_num + 1]
         THEN INVALID_ADDRESS
    ELSE IF ~is_on_case /\ case_num >= input_off_case_count[input_num + 1]
         THEN INVALID_ADDRESS
    ELSE IF ~is_on_case /\ off_case_offsets[input_num + 1] = 65535
         THEN INVALID_ADDRESS
    ELSE LET address == RawCaseAddress(input_num, case_num, is_on_case)
         IN  IF AddressRejected(address) THEN INVALID_ADDRESS ELSE address

\* number of bounds_errors++ executed by EEPROM_GetCaseAddress
EEPROM_GetCaseAddressErr(input_num, case_num, is_on_case) ==
    IF input_num >= TOTAL_INPUTS THEN 1
    ELSE IF is_on_case /\ case_num >= input_on_case_count[input_num + 1] THEN 1
    ELSE IF ~is_on_case /\ case_num >= input_off_case_count[input_num + 1] THEN 1
    ELSE IF ~is_on_case /\ off_case_offsets[input_num + 1] = 65535 THEN 0
    ELSE IF AddressRejected(RawCaseAddress(input_num, case_num, is_on_case)) THEN 1
    ELSE 0

ReadCaseRejected(address) ==
    \/ address = INVALID_ADDRESS
    \/ address >= EEPROM_SIZE
    \/ address % 2 = 1
    \/ (address < EEPROM_CASES_START /\ address < EEPROM_OFF_CASES_START)

\* a blank test that looks at the first header byte only
FirstByteBlank(address) == ReadEEPROMByte(address) = 255

HeaderBlank(address) ==
    /\ ReadEEPROMByte(address) = 255
    /\ ReadEEPROMByte(address + 1) = 255
    /\ ReadEEPROMByte(address + 2) = 255
    /\ ReadEEPROMByte(address + 3) = 255

\* the CaseData that EEPROM_ReadCase leaves when it fails: the fields it
\* initialises are 0; priority, pgn, source_addr and data are not written
\* and no caller reads them after a failure
InvalidCase ==
    [ priority |-> 0, pgn |-> 0, source_addr |-> 0, data |-> Zero8,
      pattern_on_time |-> 0, pattern_off_time |-> 0,
      must_be_on |-> Zero8, must_be_off |-> Zero8,
      valid |-> 0, can_be_overridden |-> 0 ]

\* EEPROM_ReadCase: the decoded record; .valid is the function's return value
EEPROM_ReadCase(address) ==
    IF ReadCaseRejected(address) THEN InvalidCase
    ELSE IF HeaderBlank(address) THEN InvalidCase
    ELSE LET config_byte  == ReadEEPROMByte(address + 4)
             pattern_byte == ReadEEPROMByte(address + 7)
         IN  [ priority |-> BitAnd(ReadEEPROMByte(address), 7),
               pgn |-> ReadEEPROMByte(address + 1) * 256 + ReadEEPROMByte(address + 2),
               source_addr |-> ReadEEPROMByte(address + 3),
               data |-> [k \in 1..8 |-> ReadEEPROMByte(address + 24 + (k - 1))],
               pattern_on_time |-> (pattern_byte \div 16) % 16,
               pattern_off_time |-> pattern_byte % 16,
               must_be_on |-> [k \in 1..8 |-> ReadEEPROMByte(address + 8 + (k - 1))],
               must_be_off |-> [k \in 1..8 |-> ReadEEPROMByte(address + 16 + (k - 1))],
               valid |-> 1,
               can_be_overridden |-> IF BitAnd(config_byte, 12) = 4 THEN 1 ELSE 0 ]

\* number of bounds_errors++ executed by EEPROM_ReadCase; the byte reads of
\* an accepted address add ReadEEPROMByte's own count
EEPROM_ReadCaseErr(address) ==
    IF ReadCaseRejected(address) THEN 1
    ELSE IF HeaderBlank(address)
         THEN ReadEEPROMByteErr(address) + ReadEEPROMByteErr(address + 1)
              + ReadEEPROMByteErr(address + 2) + ReadEEPROMByteErr(address + 3)
    ELSE IF address + CASE_SIZE <= EEPROM_SIZE THEN 0
    ELSE LET touched == { address + k : k \in 0..31 } \ { address + 5, address + 6 }
         IN  Cardinality({ a \in touched : a >= EEPROM_SIZE })

\* EEPROM_IsOneButtonStartInput: config bits 4-5 of the first ON case = 01
EEPROM_IsOneButtonStartInput(input_num) ==
    IF input_num >= TOTAL_INPUTS THEN FALSE
    ELSE LET base_address == EEPROM_GetCaseAddress(input_num, 0, TRUE)
         IN  IF base_address = INVALID_ADDRESS THEN FALSE
             ELSE (ReadEEPROMByte(base_address + 4) \div 16) % 4 = 1

\* EEPROM_IsTrackIgnitionCase: config bits 6-7 of the ON case = 01
EEPROM_IsTrackIgnitionCase(input_num, case_num) ==
    IF input_num >= TOTAL_INPUTS THEN FALSE
    ELSE LET base_address == EEPROM_GetCaseAddress(input_num, case_num, TRUE)
         IN  IF base_address = INVALID_ADDRESS THEN FALSE
             ELSE (ReadEEPROMByte(base_address + 4) \div 64) % 4 = 1

EEPROM_IsTrackIgnitionCaseErr(input_num, case_num) ==
    IF input_num >= TOTAL_INPUTS THEN 0
    ELSE EEPROM_GetCaseAddressErr(input_num, case_num, TRUE)

(***************************************************************************)
(* Active Case List: the array, its count and the steps shared by the      *)
(* handlers.  A "list" is [cases |-> array 0..MAX_ACTIVE_CASES-1,          *)
(* count |-> active_case_count]; slots at or above count keep whatever was *)
(* last stored in them.                                                    *)
(***************************************************************************)
Slots == 0 .. (MAX_ACTIVE_CASES - 1)

\* one ActiveCase after memset(active_cases, 0, ...)
ZeroCase ==
    [ input_num |-> 0, case_num |-> 0, is_on_case |-> 0,
      needs_removal_after_send |-> 0, case_data |-> InvalidCase ]

\* active_cases[k] = v; a store at k >= MAX_ACTIVE_CASES lands outside the
\* array, which the model shows as a slot index outside Slots
WriteSlot(cases, k, v) == (k :> v) @@ cases

\* the entries in use, in list order
ListSeq(list) == [k \in 1 .. list.count |-> list.cases[k - 1]]

\* the write_idx/read_idx compaction loop: kept entries move to the front,
\* slots from the new count on are not written
Compact(list, kept) ==
    [ cases |-> [k \in Slots |-> IF k < Len(kept) THEN kept[k + 1] ELSE list.cases[k]],
      count |-> Len(kept) ]

RemoveInputCases(list, input_num) ==
    Compact(list, SelectSeq(ListSeq(list), LAMBDA e : e.input_num # input_num))

\* a scan that lists every entry's pair again
NeverListed(clearing_list, pgn, source_addr) == FALSE

\* the already_listed loop over clearing_list[0 .. clearing_count-1]
AlreadyListed(clearing_list, pgn, source_addr) ==
    \E j \in 1 .. Len(clearing_list) :
        /\ clearing_list[j].pgn = pgn
        /\ clearing_list[j].source_addr = source_addr

\* the clearing_list scan: unique (pgn, source_addr) in list order, the
\* priority of the first entry that has the pair, at most cap pairs
RECURSIVE CapturePairs(_, _, _)
CapturePairs(entries, acc, cap) ==
    IF entries = << >> THEN acc
    ELSE LET e == Head(entries)
             already_listed ==
                 AlreadyListed(acc, e.case_data.pgn, e.case_data.source_addr)
         IN  CapturePairs(Tail(entries),
                 IF ~already_listed /\ Len(acc) < cap
                 THEN Append(acc, [ pgn |-> e.case_data.pgn,
                                    source_addr |-> e.case_data.source_addr,
                                    priority |-> e.case_data.priority ])
                 ELSE acc,
                 cap)

\* the stores that make a slot a clearing entry; can_be_overridden is the
\* one field of the slot that the code does not write
ClearingEntry(owner, i, pair, slot) ==
    [ input_num |-> owner, case_num |-> i, is_on_case |-> 0,
      needs_removal_after_send |-> 1,
      case_data |-> [ priority |-> pair.priority, pgn |-> pair.pgn,
                      source_addr |-> pair.source_addr, data |-> Zero8,
                      pattern_on_time |-> 0, pattern_off_time |-> 0,
                      must_be_on |-> Zero8, must_be_off |-> Zero8,
                      valid |-> 1,
                      can_be_overridden |-> slot.case_data.can_be_overridden ] ]

\* for(i < clearing_count) { if(count >= MAX) break; write slot; count++ }
RECURSIVE AddClearingCases(_, _, _, _)
AddClearingCases(list, pairs, i, owner) ==
    IF i >= Len(pairs) \/ list.count >= MAX_ACTIVE_CASES THEN list
    ELSE AddClearingCases(
             [ cases |-> WriteSlot(list.cases, list.count,
                              ClearingEntry(owner, i, pairs[i + 1], list.cases[list.count])),
               count |-> list.count + 1 ],
             pairs, i + 1, owner)

LoadedCase(input_num, i, is_on, one_shot, case_data) ==
    [ input_num |-> input_num, case_num |-> i, is_on_case |-> is_on,
      needs_removal_after_send |-> one_shot, case_data |-> case_data ]

Min(a, b) == IF a < b THEN a ELSE b

Max(a, b) == IF a > b THEN a ELSE b

\* a loader that never tests the capacity
OnLoadStopsUnchecked(i, num_on_cases, count) == i >= num_on_cases

\* the ON-case loop ends at num_on_cases or, by its break, at a full list
OnLoadStops(i, num_on_cases, count) ==
    i >= num_on_cases \/ count >= MAX_ACTIVE_CASES

\* STEP 2 of an activation: load the ON cases.  st threads the list, the
\* bounds_errors increments and the pattern found in case 0.
RECURSIVE LoadOnCases(_, _, _, _)
LoadOnCases(st, input_num, i, num_on_cases) ==
    IF OnLoadStops(i, num_on_cases, st.list.count) THEN st
    ELSE LET addr == EEPROM_GetCaseAddress(input_num, i, TRUE)
             e1   == EEPROM_GetCaseAddressErr(input_num, i, TRUE)
         IN  IF addr = INVALID_ADDRESS
             THEN LoadOnCases([st EXCEPT !.errs = @ + e1], input_num, i + 1, num_on_cases)
             ELSE IF addr >= EEPROM_SIZE
             THEN LoadOnCases([st EXCEPT !.errs = @ + e1 + 1], input_num, i + 1, num_on_cases)
             ELSE LET case_data == EEPROM_ReadCase(addr)
                      e2 == EEPROM_ReadCaseErr(addr)
                      pat == /\ i = 0
                             /\ (case_data.pattern_on_time # 0 \/ case_data.pattern_off_time # 0)
                  IN  IF case_data.valid = 1
                      THEN LoadOnCases(
                             [ list |-> [ cases |-> WriteSlot(st.list.cases, st.list.count,
                                                        LoadedCase(input_num, i, 1, 0, case_data)),
                                          count |-> st.list.count + 1 ],
                               errs |-> st.errs + e1 + e2,
                               has_pattern |-> IF pat THEN 1 ELSE st.has_pattern,
                               on_time |-> IF pat THEN case_data.pattern_on_time ELSE st.on_time,
                               off_time |-> IF pat THEN case_data.pattern_off_time ELSE st.off_time ],
                             input_num, i + 1, num_on_cases)
                      ELSE LoadOnCases([st EXCEPT !.errs = @ + e1 + e2],
                                       input_num, i + 1, num_on_cases)

\* the while loop of the IN23/24 fix: advance the count over slots that hold
\* a valid entry owned by input 22 or 23
RECURSIVE SkipLegacySlots(_, _)
SkipLegacySlots(cases, count) ==
    IF /\ count < MAX_ACTIVE_CASES
       /\ (cases[count].input_num = 22 \/ cases[count].input_num = 23)
       /\ cases[count].case_data.valid = 1
    THEN SkipLegacySlots(cases, count + 1)
    ELSE count

\* STEP 3 of a deactivation: load the OFF cases as one-shot entries
RECURSIVE LoadOffCases(_, _, _, _)
LoadOffCases(st, input_num, i, num_off_cases) ==
    IF i >= num_off_cases \/ st.list.count >= MAX_ACTIVE_CASES THEN st
    ELSE LET addr == EEPROM_GetCaseAddress(input_num, i, FALSE)
             e1   == EEPROM_GetCaseAddressErr(input_num, i, FALSE)
         IN  IF addr = INVALID_ADDRESS
             THEN LoadOffCases([st EXCEPT !.errs = @ + e1], input_num, i + 1, num_off_cases)
             ELSE IF addr >= EEPROM_SIZE
             THEN LoadOffCases([st EXCEPT !.errs = @ + e1 + 1], input_num, i + 1, num_off_cases)
             ELSE LET case_data == EEPROM_ReadCase(addr)
                      e2 == EEPROM_ReadCaseErr(addr)
                      at == SkipLegacySlots(st.list.cases, st.list.count)
                  IN  IF case_data.valid = 1
                      THEN IF at >= MAX_ACTIVE_CASES
                           THEN [st EXCEPT !.list.count = at, !.errs = @ + e1 + e2]
                           ELSE LoadOffCases(
                                  [st EXCEPT
                                     !.list = [ cases |-> WriteSlot(st.list.cases, at,
                                                   LoadedCase(input_num, i, 0, 1, case_data)),
                                                count |-> at + 1 ],
                                     !.errs = @ + e1 + e2],
                                  input_num, i + 1, num_off_cases)
                      ELSE LoadOffCases([st EXCEPT !.errs = @ + e1 + e2],
                                        input_num, i + 1, num_off_cases)

(***************************************************************************)
(* EEPROM_HandleInputChange: the list part of the handler.  The result is  *)
(* [list, errs, has_pattern, on_time, off_time]; the caller stores the     *)
(* list and applies the pattern-timer assignments.                         *)
(***************************************************************************)
NoPattern(list) ==
    [ list |-> list, errs |-> 0, has_pattern |-> 0, on_time |-> 0, off_time |-> 0 ]

\* new_state = 1: capture (ON and OFF entries), remove, clear, load ON cases
ActivateList(list, input_num) ==
    LET clearing_list ==
            CapturePairs(SelectSeq(ListSeq(list), LAMBDA e : e.input_num = input_num),
                         << >>, MAX_ON_CASES_PER_INPUT)
        removed == RemoveInputCases(list, input_num)
        cleared == AddClearingCases(removed, clearing_list, 0, input_num)
    IN  LoadOnCases(NoPattern(cleared), input_num, 0,
                    Min(input_on_case_count[input_num + 1], MAX_ON_CASES_PER_INPUT))

\* new_state = 0: capture (ON entries only), remove, clear, load OFF cases
DeactivateList(list, input_num) ==
    LET clearing_list ==
            CapturePairs(SelectSeq(ListSeq(list),
                                   LAMBDA e : e.input_num = input_num /\ e.is_on_case # 0),
                         << >>, MAX_ON_CASES_PER_INPUT)
        removed == RemoveInputCases(list, input_num)
        cleared == AddClearingCases(removed, clearing_list, 0, input_num)
    IN  LoadOffCases(NoPattern(cleared), input_num, 0,
                     Min(input_off_case_count[input_num + 1], MAX_OFF_CASES_PER_INPUT))

HandleInputChangeList(list, input_num, new_state) ==
    IF new_state = 1 THEN ActivateList(list, input_num)
    ELSE DeactivateList(list, input_num)

(***************************************************************************)
(* Pattern Timer Bank                                                      *)
(***************************************************************************)
InactiveTimer ==
    [ state |-> PATTERN_STATE_INACTIVE, timer |-> 0, on_time |-> 0,
      off_time |-> 0, has_pattern |-> 0 ]

\* "Configure pattern timer if needed" at the end of an activation
ConfigureTimer(t, has_pattern, on_time, off_time) ==
    IF has_pattern = 1
    THEN [ state |-> PATTERN_STATE_ON_PHASE, timer |-> on_time,
           on_time |-> on_time, off_time |-> off_time, has_pattern |-> 1 ]
    ELSE [t EXCEPT !.has_pattern = 0, !.state = PATTERN_STATE_INACTIVE, !.timer = 0]

\* a disarm that forgets the state store
DisarmTimerKeepsState(t) == [t EXCEPT !.has_pattern = 0, !.timer = 0]

\* the three stores that disarm a timer (deactivation, EEPROM_ClearManualCase)
DisarmTimer(t) ==
    [t EXCEPT !.state = PATTERN_STATE_INACTIVE, !.has_pattern = 0, !.timer = 0]

\* a toggle that leaves the OFF phase as it is when it expires
ToggleToOffOnly(t) ==
    IF t.timer # 0 THEN t
    ELSE IF t.state = PATTERN_STATE_ON_PHASE
         THEN [t EXCEPT !.state = PATTERN_STATE_OFF_PHASE, !.timer = t.off_time]
    ELSE t

\* the body of the loop of EEPROM_Pattern_UpdateTimers for one timer
ToggleIfExpired(t) ==
    IF t.timer # 0 THEN t
    ELSE IF t.state = PATTERN_STATE_ON_PHASE
         THEN [t EXCEPT !.state = PATTERN_STATE_OFF_PHASE, !.timer = t.off_time]
    ELSE IF t.state = PATTERN_STATE_OFF_PHASE
         THEN [t EXCEPT !.state = PATTERN_STATE_ON_PHASE, !.timer = t.on_time]
    ELSE t

DecrementTimer(t) == IF t.timer > 0 THEN [t EXCEPT !.timer = @ - 1] ELSE t

\* an update that spends a whole tick on the toggle: every phase then lasts
\* its duration plus one tick
UpdateTimerToggleOrCount(t) ==
    IF t.state = PATTERN_STATE_INACTIVE THEN t
    ELSE IF t.has_pattern = 0 THEN t
    ELSE IF t.timer = 0 THEN ToggleIfExpired(t)
    ELSE DecrementTimer(t)

UpdateTimer(t) ==
    IF t.state = PATTERN_STATE_INACTIVE THEN t
    ELSE IF t.has_pattern = 0 THEN t
    ELSE DecrementTimer(ToggleIfExpired(t))

EEPROM_Pattern_UpdateTimers(timers) ==
    [i \in DOMAIN timers |-> UpdateTimer(timers[i])]

\* a phase query that never reports the OFF phase
AlwaysInOnPhase(timers, input_num) == TRUE

PatternIsInOnPhase(timers, input_num) ==
    IF input_num >= TOTAL_INPUTS THEN FALSE
    ELSE IF timers[input_num].has_pattern = 0 THEN TRUE
    ELSE timers[input_num].state = PATTERN_STATE_ON_PHASE

EEPROM_Pattern_IsInOnPhase(input_num) == PatternIsInOnPhase(pattern_timers, input_num)

(***************************************************************************)
(* Manual Override Controller                                              *)
(***************************************************************************)
\* GetIgnitionBitPosition: the position of the single set bit of data[0],
\* or 0xFF when no bit or more than one bit is set
GetIgnitionBitPosition(case_data) ==
    LET set_bits == { i \in 0..7 : TestBit(case_data.data[1], Pow2(i)) }
    IN  IF Cardinality(set_bits) = 1 THEN CHOOSE i \in set_bits : TRUE ELSE 255

\* EEPROM_ClearManualCase for input_num < TOTAL_INPUTS: [list, errs]
ClearManualList(list, input_num) ==
    LET removed == RemoveInputCases(list, input_num)
        base_address == EEPROM_GetCaseAddress(input_num, 0, TRUE)
        e1 == EEPROM_GetCaseAddressErr(input_num, 0, TRUE)
    IN  IF base_address = INVALID_ADDRESS THEN [ list |-> removed, errs |-> e1 ]
        ELSE LET read == EEPROM_ReadCase(base_address)
                 e2 == EEPROM_ReadCaseErr(base_address)
                 clearing_case == [read EXCEPT !.data = Zero8]
             IN  IF read.valid = 1 /\ removed.count < MAX_ACTIVE_CASES
                 THEN [ list |-> [ cases |-> WriteSlot(removed.cases, removed.count,
                                        LoadedCase(input_num, 0, 0, 1, clearing_case)),
                                   count |-> removed.count + 1 ],
                        errs |-> e1 + e2 ]
                 ELSE [ list |-> removed, errs |-> e1 + e2 ]

\* a starter bit one position above the ignition bit (bit 0 above bit 7)
ManualDataStarterAbove(ignition_bit, ignition_on, starter_on) ==
    LET starter_bit == IF ignition_bit = 7 THEN 0 ELSE ignition_bit + 1
    IN  [ Zero8 EXCEPT ![1] =
            BitOr(IF ignition_on = 1 THEN Pow2(ignition_bit) ELSE 0,
                  IF starter_on = 1 THEN Pow2(starter_bit) ELSE 0) ]

\* data[0] built by EEPROM_SetManualCase: ignition bit and the starter bit
\* one position lower (bit 7 when the ignition bit is bit 0)
ManualData(ignition_bit, ignition_on, starter_on) ==
    LET starter_bit == IF ignition_bit = 0 THEN 7 ELSE ignition_bit - 1
    IN  [ Zero8 EXCEPT ![1] =
            BitOr(IF ignition_on = 1 THEN Pow2(ignition_bit) ELSE 0,
                  IF starter_on = 1 THEN Pow2(starter_bit) ELSE 0) ]

\* EEPROM_SetManualCase for input_num < TOTAL_INPUTS: [list, errs, ret]
SetManualList(list, input_num, ignition_on, starter_on) ==
    LET cleared == ClearManualList(list, input_num)
        base_address == EEPROM_GetCaseAddress(input_num, 0, TRUE)
        e1 == EEPROM_GetCaseAddressErr(input_num, 0, TRUE)
    IN  IF base_address = INVALID_ADDRESS
        THEN [ list |-> cleared.list, errs |-> cleared.errs + e1, ret |-> 0 ]
        ELSE LET case_data == EEPROM_ReadCase(base_address)
                 e2 == EEPROM_ReadCaseErr(base_address)
                 ignition_bit == GetIgnitionBitPosition(case_data)
                 failed == [ list |-> cleared.list, errs |-> cleared.errs + e1 + e2,
                             ret |-> 0 ]
             IN  IF case_data.valid = 0 THEN failed
                 ELSE IF ignition_bit = 255 THEN failed
                 ELSE IF cleared.list.count >= MAX_ACTIVE_CASES THEN failed
                 ELSE [ list |-> [ cases |-> WriteSlot(cleared.list.cases, cleared.list.count,
                                        LoadedCase(input_num, 0, 1, 0,
                                            [case_data EXCEPT !.data =
                                                ManualData(ignition_bit, ignition_on, starter_on)])),
                                   count |-> cleared.list.count + 1 ],
                        errs |-> cleared.errs + e1 + e2,
                        ret |-> 1 ]

(***************************************************************************)
(* Ignition-Tracking Controller                                            *)
(***************************************************************************)
\* the (input, case) pairs in the order of the two nested scan loops
OnCaseScan ==
    SelectSeq([k \in 1 .. (TOTAL_INPUTS * MAX_ON_CASES_PER_INPUT) |->
                  [ input_num |-> (k - 1) \div MAX_ON_CASES_PER_INPUT,
                    case_num |-> (k - 1) % MAX_ON_CASES_PER_INPUT ]],
              LAMBDA s : s.case_num < Min(input_on_case_count[s.input_num + 1],
                                          MAX_ON_CASES_PER_INPUT))

\* the scan restricted to the cases whose configuration marks them tracked
TrackedScan ==
    SelectSeq(OnCaseScan,
              LAMBDA s : EEPROM_IsTrackIgnitionCase(s.input_num, s.case_num))

\* STEP 1: drop every entry whose (input_num, case_num) names a tracked case
RemoveTrackedCases(list) ==
    Compact(list, SelectSeq(ListSeq(list),
                    LAMBDA e : ~EEPROM_IsTrackIgnitionCase(e.input_num, e.case_num)))

RECURSIVE SumSeq(_)
SumSeq(s) == IF s = << >> THEN 0 ELSE Head(s) + SumSeq(Tail(s))

RemoveTrackedErr(list) ==
    SumSeq([k \in 1 .. list.count |->
              EEPROM_IsTrackIgnitionCaseErr(list.cases[k - 1].input_num,
                                            list.cases[k - 1].case_num)])

\* STEP 2: load the tracked cases, in scan order, until the list is full.
\* The capacity test is made for every scanned case; a full list can only
\* stop the loads, so testing it at the tracked cases gives the same list.
RECURSIVE LoadTrackedCases(_, _)
LoadTrackedCases(st, scan) ==
    IF scan = << >> \/ st.list.count >= MAX_ACTIVE_CASES THEN st
    ELSE LET s == Head(scan)
             addr == EEPROM_GetCaseAddress(s.input_num, s.case_num, TRUE)
             case_data == EEPROM_ReadCase(addr)
             errs == EEPROM_IsTrackIgnitionCaseErr(s.input_num, s.case_num)
                     + EEPROM_GetCaseAddressErr(s.input_num, s.case_num, TRUE)
         IN  IF addr = INVALID_ADDRESS \/ addr >= EEPROM_SIZE
             THEN LoadTrackedCases([st EXCEPT !.errs = @ + errs], Tail(scan))
             ELSE IF case_data.valid = 1
             THEN LoadTrackedCases(
                    [ list |-> [ cases |-> WriteSlot(st.list.cases, st.list.count,
                                    LoadedCase(s.input_num, s.case_num, 1, 0, case_data)),
                                 count |-> st.list.count + 1 ],
                      errs |-> st.errs + errs + EEPROM_ReadCaseErr(addr) ],
                    Tail(scan))
             ELSE LoadTrackedCases([st EXCEPT !.errs = @ + errs + EEPROM_ReadCaseErr(addr)],
                                   Tail(scan))

\* STEP 3: the entries that stand for the valid tracked cases of the store
TrackedStoreCases(scan) ==
    LET read == [k \in 1 .. Len(scan) |->
                    [ case_data |-> EEPROM_ReadCase(
                          EEPROM_GetCaseAddress(scan[k].input_num, scan[k].case_num, TRUE)) ]]
    IN  SelectSeq(read, LAMBDA r : r.case_data.valid = 1)

TrackedStoreErr(scan) ==
    SumSeq([k \in 1 .. Len(scan) |->
              EEPROM_ReadCaseErr(
                  EEPROM_GetCaseAddress(scan[k].input_num, scan[k].case_num, TRUE))])

\* EEPROM_UpdateIgnitionTrackedCases: [list, errs]
UpdateIgnitionTrackedList(list, ignition_flag_arg) ==
    LET removed == RemoveTrackedCases(list)
        e0 == RemoveTrackedErr(list)
        scan == TrackedScan
    IN  IF ignition_flag_arg = 1
        THEN LoadTrackedCases([ list |-> removed, errs |-> e0 ], scan)
        ELSE [ list |-> AddClearingCases(removed,
                            CapturePairs(TrackedStoreCases(scan), << >>, MAX_ACTIVE_CASES),
                            0, NO_INPUT),
               errs |-> e0 + TrackedStoreErr(scan) ]

\* a removal that lowers the count without moving the kept entries
RemoveMarkedCountOnly(list) ==
    [ cases |-> list.cases,
      count |-> Len(SelectSeq(ListSeq(list), LAMBDA e : e.needs_removal_after_send = 0)) ]

\* EEPROM_RemoveMarkedCases
RemoveMarkedList(list) ==
    Compact(list, SelectSeq(ListSeq(list), LAMBDA e : e.needs_removal_after_send = 0))

\* EEPROM_ClearActiveCases
ClearedList ==
    [ cases |-> [k \in Slots |-> ZeroCase], count |-> 0 ]

(***************************************************************************)
(* Conditional Evaluator                                                   *)
(***************************************************************************)
Inputs_GetState(input_num) ==
    IF input_num >= TOTAL_INPUTS THEN 0 ELSE input_states[input_num]

Inputs_GetIgnitionState ==
    IF ignition_flag = 1 \/ can_ignition_state = 1 THEN 1 ELSE 0

\* an evaluator that also reads the security bit (byte 5, bit 4 = 0x10) and
\* fails a case that requires a security state it never sees granted
CheckInputConditionsWithSecurity(must_be_on, must_be_off) ==
    /\ \A input \in 0 .. (TOTAL_INPUTS - 1) :
         /\ ~(TestBit(must_be_on[(input \div 8) + 1], Pow2(input % 8))
              /\ Inputs_GetState(input) = 0)
         /\ ~(TestBit(must_be_off[(input \div 8) + 1], Pow2(input % 8))
              /\ Inputs_GetState(input) = 1)
    /\ ~(TestBit(must_be_on[6], 32) /\ Inputs_GetIgnitionState = 0)
    /\ ~(TestBit(must_be_off[6], 32) /\ Inputs_GetIgnitionState = 1)
    /\ ~TestBit(must_be_on[6], 16)

CheckInputConditions(must_be_on, must_be_off) ==
    /\ \A input \in 0 .. (TOTAL_INPUTS - 1) :
         LET byte_idx == input \div 8
             bit_mask == Pow2(input % 8)
         IN  /\ ~(TestBit(must_be_on[byte_idx + 1], bit_mask)
                  /\ Inputs_GetState(input) = 0)
             /\ ~(TestBit(must_be_off[byte_idx + 1], bit_mask)
                  /\ Inputs_GetState(input) = 1)
    /\ ~(TestBit(must_be_on[6], 32) /\ Inputs_GetIgnitionState = 0)
    /\ ~(TestBit(must_be_off[6], 32) /\ Inputs_GetIgnitionState = 1)

(***************************************************************************)
(* Aggregation / Override Engine: EEPROM_GetAggregatedMessages             *)
(***************************************************************************)
\* a search that finds nothing
FindNone(seq, pgn, source_addr) == 0

\* index of the first element of seq with this (pgn, source_addr), 0 if none
FindId(seq, pgn, source_addr) ==
    LET hits == { j \in 1 .. Len(seq) :
                    seq[j].pgn = pgn /\ seq[j].source_addr = source_addr }
    IN  IF hits = {} THEN 0 ELSE CHOOSE j \in hits : \A h \in hits : j <= h

HasArmedPattern(timers, input_num) ==
    input_num < TOTAL_INPUTS /\ timers[input_num].has_pattern # 0

\* PASS 1: per (pgn, source_addr), the OR of the data of every valid entry
\* whose owning input has has_pattern set
RECURSIVE PatternMasks(_, _, _)
PatternMasks(entries, timers, masks) ==
    IF entries = << >> THEN masks
    ELSE LET ac == Head(entries)
             j  == FindId(masks, ac.case_data.pgn, ac.case_data.source_addr)
         IN  IF ac.case_data.valid = 0 \/ ~HasArmedPattern(timers, ac.input_num)
             THEN PatternMasks(Tail(entries), timers, masks)
             ELSE IF j # 0
             THEN PatternMasks(Tail(entries), timers,
                     [masks EXCEPT ![j].pattern_mask = Or8(@, ac.case_data.data)])
             ELSE IF Len(masks) < MAX_UNIQUE_MESSAGES
             THEN PatternMasks(Tail(entries), timers,
                     Append(masks, [ pgn |-> ac.case_data.pgn,
                                     source_addr |-> ac.case_data.source_addr,
                                     pattern_mask |-> ac.case_data.data ]))
             ELSE PatternMasks(Tail(entries), timers, masks)

\* an aggregation that overrides nothing
NoOverrideMask(ac, masks) == Zero8

\* the override mask pass 2 uses for an entry
OverrideMask(ac, masks) ==
    LET j == FindId(masks, ac.case_data.pgn, ac.case_data.source_addr)
    IN  IF ac.case_data.can_be_overridden # 0 /\ j # 0
        THEN masks[j].pattern_mask ELSE Zero8

\* the data an entry contributes in pass 2 once its conditions have passed
EffectiveData(ac, timers, masks) ==
    IF HasArmedPattern(timers, ac.input_num) /\ ~PatternIsInOnPhase(timers, ac.input_num)
    THEN Zero8
    ELSE IF ac.case_data.can_be_overridden # 0
    THEN AndNot8(ac.case_data.data, OverrideMask(ac, masks))
    ELSE ac.case_data.data

\* a merge that leaves the flag of an existing message as it is
KeepHasPattern(flag, has_pattern) == flag

\* if(has_pattern) { messages[j].has_pattern = 1; } on an existing message
MergeHasPattern(flag, has_pattern) == IF has_pattern = 1 THEN 1 ELSE flag

\* PASS 2: fold the entries, in list order, into the messages
RECURSIVE MergeCases(_, _, _, _, _)
MergeCases(entries, timers, masks, messages, max_messages) ==
    IF entries = << >> THEN messages
    ELSE LET ac == Head(entries)
             has_pattern == IF HasArmedPattern(timers, ac.input_num) THEN 1 ELSE 0
             effective_data == EffectiveData(ac, timers, masks)
             j == FindId(messages, ac.case_data.pgn, ac.case_data.source_addr)
         IN  IF ac.case_data.valid = 0
             THEN MergeCases(Tail(entries), timers, masks, messages, max_messages)
             ELSE IF ~CheckInputConditions(ac.case_data.must_be_on, ac.case_data.must_be_off)
             THEN MergeCases(Tail(entries), timers, masks, messages, max_messages)
             ELSE IF j # 0
             THEN MergeCases(Tail(entries), timers, masks,
                     [messages EXCEPT ![j].data = Or8(@, effective_data),
                                      ![j].has_pattern = MergeHasPattern(@, has_pattern)],
                     max_messages)
             ELSE IF Len(messages) < max_messages
             THEN MergeCases(Tail(entries), timers, masks,
                     Append(messages, [ priority |-> ac.case_data.priority,
                                        pgn |-> ac.case_data.pgn,
                                        source_addr |-> ac.case_data.source_addr,
                                        data |-> effective_data,
                                        valid |-> 1,
                                        has_pattern |-> has_pattern,
                                        data_changed |-> 0 ]),
                     max_messages)
             ELSE MergeCases(Tail(entries), timers, masks, messages, max_messages)

\* an aggregation that leaves the inLINK slots out
MergeInLinkLocalOnly(i, messages, max_messages) == messages

\* STEP 2: fold the valid inLINK slots 0..15 into the messages
RECURSIVE MergeInLink(_, _, _)
MergeInLink(i, messages, max_messages) ==
    IF i >= MAX_INLINK_MESSAGES THEN messages
    ELSE LET m == inlink_messages[i]
             j == FindId(messages, m.pgn, m.source_addr)
         IN  IF m.valid = 0 THEN MergeInLink(i + 1, messages, max_messages)
             ELSE IF j # 0
             THEN MergeInLink(i + 1, [messages EXCEPT ![j].data = Or8(@, m.data)],
                              max_messages)
             ELSE IF Len(messages) < max_messages
             THEN MergeInLink(i + 1,
                     Append(messages, [ priority |-> 6, pgn |-> m.pgn,
                                        source_addr |-> m.source_addr,
                                        data |-> m.data, valid |-> 1,
                                        has_pattern |-> 0, data_changed |-> 0 ]),
                     max_messages)
             ELSE MergeInLink(i + 1, messages, max_messages)

\* the messages 0 .. msg_count-1 that the call leaves valid, in array order
\* (msg_count is the length); max_messages = 0 returns at once
EEPROM_GetAggregatedMessages(list, timers, max_messages) ==
    IF max_messages = 0 THEN << >>
    ELSE LET entries == ListSeq(list)
             masks == PatternMasks(entries, timers, << >>)
         IN  MergeInLink(0, MergeCases(entries, timers, masks, << >>, max_messages),
                         max_messages)

\* messages[i] as the initialisation loop leaves it
ClearedMessage ==
    [ priority |-> 0, pgn |-> 0, source_addr |-> 0, data |-> Zero8, valid |-> 0,
      has_pattern |-> 0, data_changed |-> 0 ]

\* the caller's array messages[0 .. max_messages-1] after the call
AggregatedArray(list, timers, max_messages) ==
    LET msgs == EEPROM_GetAggregatedMessages(list, timers, max_messages)
    IN  [ j \in 0 .. (max_messages - 1) |->
            IF j < Len(msgs) THEN msgs[j + 1] ELSE ClearedMessage ]

(***************************************************************************)
(* Store contents.  The records are provisioned by tooling outside the     *)
(* engine; the model draws the store from a few provisionings that use the *)
(* record layout of EEPROM_ReadCase.                                       *)
(***************************************************************************)
\* the 32 bytes of one case record at address
CaseImage(address, priority, pgn, source_addr, config, pattern, must_be_on, must_be_off, data) ==
    [ a \in address .. (address + CASE_SIZE - 1) |->
        LET k == a - address
        IN  IF k = 0 THEN priority
            ELSE IF k = 1 THEN pgn \div 256
            ELSE IF k = 2 THEN pgn % 256
            ELSE IF k = 3 THEN source_addr
            ELSE IF k = 4 THEN config
            ELSE IF k = 7 THEN pattern
            ELSE IF k \in 8..15 THEN must_be_on[k - 7]
            ELSE IF k \in 16..23 THEN must_be_off[k - 15]
            ELSE IF k \in 24..31 THEN data[k - 23]
            ELSE 0 ]

Byte0(b) == [Zero8 EXCEPT ![1] = b]

OnAddr(input_num, case_num) == EEPROM_GetCaseAddress(input_num, case_num, TRUE)

OffAddr(input_num, case_num) == EEPROM_GetCaseAddress(input_num, case_num, FALSE)

\* IN03 case 0 flashes 0xC0 on (0xFF01, 0x1E) with the given pattern byte;
\* IN03 case 1 adds bit 0 to the same message when IN01 is on;
\* IN23 case 0 is an overridable steady 0xC0 on the same message, given
\* while IN01 is off;
\* IN01 case 0 is a single-bit case, IN01 case 1 is ignition-tracked,
\* IN01 OFF case 0 is a one-shot message on IN01's own identifier.
Records(pattern) ==
    CaseImage(OnAddr(2, 0), 6, 65281, 30, 0, pattern, Zero8, Zero8, Byte0(192))
    @@ CaseImage(OnAddr(2, 1), 6, 65281, 30, 0, 0, Byte0(1), Zero8, Byte0(1))
    @@ CaseImage(OnAddr(22, 0), 3, 65281, 30, 4, 0, Zero8, Byte0(1), Byte0(192))
    @@ CaseImage(OnAddr(0, 0), 6, 65282, 30, 0, 0, Zero8, Zero8, Byte0(32))
    @@ CaseImage(OnAddr(0, 1), 6, 65283, 30, 64, 0, Zero8, Zero8, Byte0(4))
    @@ CaseImage(OffAddr(0, 0), 6, 65282, 30, 0, 0, Zero8, Zero8, Byte0(8))

\* IN03 case 0 flashes 0xC0 on (0xFF01, 0x1E) with the pattern byte 0x11,
\* its configuration byte and its must_be_on bitmap as given; IN23 case 0 is
\* an overridable steady 0xC0 on the same message without prerequisites
OverrideRecords(config, must_be_on) ==
    CaseImage(OnAddr(2, 0), 6, 65281, 30, config, 17, must_be_on, Zero8, Byte0(192))
    @@ CaseImage(OnAddr(22, 0), 3, 65281, 30, 4, 0, Zero8, Zero8, Byte0(192))

OverrideProvisioning(config, must_be_on) ==
    LET records == OverrideRecords(config, must_be_on)
    IN  [ a \in 0 .. (EEPROM_SIZE - 1) |->
            IF a \in DOMAIN records THEN records[a] ELSE 255 ]

\* IN03 case 0 with priority 6 on (0xFF01, 0x1E), payload byte 0 = 0x80 and
\* pattern byte 0x33, its configuration byte as given; IN03 case 1 adds bit 0
\* to the same message when IN01 is on; IN01 case 0 is a steady case on its
\* own identifier
ScenarioRecords(config) ==
    CaseImage(OnAddr(2, 0), 6, 65281, 30, config, 51, Zero8, Zero8, Byte0(128))
    @@ CaseImage(OnAddr(2, 1), 6, 65281, 30, 0, 0, Byte0(1), Zero8, Byte0(1))
    @@ CaseImage(OnAddr(0, 0), 6, 65282, 30, 0, 0, Zero8, Zero8, Byte0(32))

ScenarioProvisioning(config) ==
    LET records == ScenarioRecords(config)
    IN  [ a \in 0 .. (EEPROM_SIZE - 1) |->
            IF a \in DOMAIN records THEN records[a] ELSE 255 ]

\* IN01 case 0 is a one-button-start case (config bits 4-5 = 01) with the one
\* payload bit given; IN03 case 0 is a steady case on another identifier
ManualRecords(bit) ==
    CaseImage(OnAddr(0, 0), 5, 65282, 30, 16, 0, Zero8, Zero8, Byte0(Pow2(bit)))
    @@ CaseImage(OnAddr(2, 0), 6, 65281, 30, 0, 0, Zero8, Zero8, Byte0(192))

ManualProvisioning(bit) ==
    LET records == ManualRecords(bit)
    IN  [ a \in 0 .. (EEPROM_SIZE - 1) |->
            IF a \in DOMAIN records THEN records[a] ELSE 255 ]

\* a prerequisite bitmap: byte 1 (inputs 8..15), byte 5 (inputs 40..43, the
\* security bit 0x10, the ignition bit 0x20) and the two reserved bytes 6, 7
PrereqMap(b1, b5, b67) == <<0, b1, 0, 0, 0, b5, b67, b67>>

\* IN01 case 0 carries the prerequisites given, IN01 case 1 has none; both
\* are on one identifier
ConditionRecords(must_be_on, must_be_off) ==
    CaseImage(OnAddr(0, 0), 6, 65282, 30, 0, 0, must_be_on, must_be_off, Byte0(32))
    @@ CaseImage(OnAddr(0, 1), 6, 65282, 30, 0, 0, Zero8, Zero8, Byte0(1))

ConditionProvisioning(must_be_on, must_be_off) ==
    LET records == ConditionRecords(must_be_on, must_be_off)
    IN  [ a \in 0 .. (EEPROM_SIZE - 1) |->
            IF a \in DOMAIN records THEN records[a] ELSE 255 ]

\* IN01 case 0 is a steady 0x20 on (0xFF02, 0x1E) and IN01 OFF case 0 a
\* message 0x08 on (0xFF04, 0x1E), an identifier no other case uses; IN03
\* case 0 flashes 0xC0 on (0xFF01, 0x1E)
OffCaseRecords ==
    CaseImage(OnAddr(0, 0), 6, 65282, 30, 0, 0, Zero8, Zero8, Byte0(32))
    @@ CaseImage(OffAddr(0, 0), 6, 65284, 30, 0, 0, Zero8, Zero8, Byte0(8))
    @@ CaseImage(OnAddr(2, 0), 6, 65281, 30, 0, 17, Zero8, Zero8, Byte0(192))

OffCaseProvisioning ==
    [ a \in 0 .. (EEPROM_SIZE - 1) |->
        IF a \in DOMAIN OffCaseRecords THEN OffCaseRecords[a] ELSE 255 ]

\* IN03 case 0 flashes 0xC0 on (0xFF01, 0x1E); IN03 case 1 is an
\* ignition-tracked case (config bits 6-7 = 01) with payload 0x04 on
\* (0xFF03, 0x1E)
TrackedRecords ==
    CaseImage(OnAddr(2, 0), 6, 65281, 30, 0, 17, Zero8, Zero8, Byte0(192))
    @@ CaseImage(OnAddr(2, 1), 6, 65283, 30, 64, 0, Zero8, Zero8, Byte0(4))

TrackedProvisioning ==
    [ a \in 0 .. (EEPROM_SIZE - 1) |->
        IF a \in DOMAIN TrackedRecords THEN TrackedRecords[a] ELSE 255 ]

\* IN01 case 0 is a one-button-start case (config bits 4-5 = 01) with
\* payload bit 5 and the configuration byte given, which may also mark it
\* ignition-tracked (bits 6-7 = 01); IN03 case 0 is a steady case on another
\* identifier
ManualTrackedRecords(config) ==
    CaseImage(OnAddr(0, 0), 5, 65282, 30, config, 0, Zero8, Zero8, Byte0(32))
    @@ CaseImage(OnAddr(2, 0), 6, 65281, 30, 0, 0, Zero8, Zero8, Byte0(192))

ManualTrackedProvisioning(config) ==
    LET records == ManualTrackedRecords(config)
    IN  [ a \in 0 .. (EEPROM_SIZE - 1) |->
            IF a \in DOMAIN records THEN records[a] ELSE 255 ]

\* bytes 0 to 27 of the store as EEPROM_InitWithConfig writes them: the
\* heartbeat is (0xFF00, 0x80), write requests are (0xFF10, 0x80), read
\* requests (0xFF20, 0x80) and responses (0xFF30, 0x80)
ConfigBytes ==
    << 1, 255, 0, 128, 1, 7, 1, 165, 255, 255, 255, 16, 128, 255, 32, 128,
       255, 48, 128, 255, 64, 128, 66, 70, 82, 78, 84, 255 >>

ConfigProvisioning ==
    [ a \in 0 .. (EEPROM_SIZE - 1) |->
        IF a < Len(ConfigBytes) THEN ConfigBytes[a + 1] ELSE 255 ]

\* IN01 case 0 is a steady case; IN03 case 0 is erased or a case with the
\* pattern byte first, and IN03 case 1 a case with the pattern byte second
FirstCaseRecords(blank, first, second) ==
    CaseImage(OnAddr(0, 0), 6, 65282, 30, 0, 0, Zero8, Zero8, Byte0(32))
    @@ (IF blank = 1 THEN << >>
        ELSE CaseImage(OnAddr(2, 0), 6, 65281, 30, 0, first, Zero8, Zero8, Byte0(192)))
    @@ CaseImage(OnAddr(2, 1), 6, 65283, 30, 0, second, Zero8, Zero8, Byte0(4))

FirstCaseProvisioning(blank, first, second) ==
    LET records == FirstCaseRecords(blank, first, second)
    IN  [ a \in 0 .. (EEPROM_SIZE - 1) |->
            IF a \in DOMAIN records THEN records[a] ELSE 255 ]

\* records that differ in every decoded field: a priority byte with high
\* bits set, an overridable and a non-overridable configuration, pattern
\* nibbles, prerequisite and payload bytes; a header with three bytes 0xFF
\* and one with only its first byte 0xFF; a record whose header is erased but
\* whose body is written; a record in the OFF region
DecodeRecords ==
    CaseImage(OnAddr(0, 0), 254, 65281, 30, 4, 58,
              <<1, 2, 3, 4, 5, 32, 7, 8>>, <<16, 0, 0, 0, 0, 16, 255, 255>>,
              <<128, 1, 2, 3, 4, 5, 6, 7>>)
    @@ CaseImage(OnAddr(0, 1), 255, 65535, 254, 12, 240, Zero8, Zero8, Byte0(1))
    @@ CaseImage(OnAddr(0, 2), 255, 4660, 86, 8, 15, Zero8, Byte0(2), Byte0(64))
    @@ CaseImage(OnAddr(0, 3), 255, 65535, 255, 4, 51, Byte0(1), Zero8, Byte0(192))
    @@ CaseImage(OffAddr(31, 0), 3, 65284, 31, 0, 0, Zero8, Zero8, Byte0(8))

DecodeProvisioning ==
    [ a \in 0 .. (EEPROM_SIZE - 1) |->
        IF a \in DOMAIN DecodeRecords THEN DecodeRecords[a] ELSE 255 ]

\* IN01 case 0 is a one-button-start case (config bits 4-5 = 01) that must
\* have IN03 off; IN03 case 0 is a steady case on another identifier and
\* IN03 case 1 an ignition-tracked case that must have IN01 on
ClearingRecords ==
    CaseImage(OnAddr(0, 0), 5, 65282, 30, 16, 0, Zero8, Byte0(4), Byte0(32))
    @@ CaseImage(OnAddr(2, 0), 6, 65281, 30, 0, 0, Zero8, Zero8, Byte0(192))
    @@ CaseImage(OnAddr(2, 1), 6, 65283, 30, 64, 0, Byte0(1), Zero8, Byte0(4))

ClearingProvisioning ==
    [ a \in 0 .. (EEPROM_SIZE - 1) |->
        IF a \in DOMAIN ClearingRecords THEN ClearingRecords[a] ELSE 255 ]

\* IN01 case 0 is the case of a regular ignition input (config bits 0-1 =
\* 01), IN02 case 0 a one-button-start case (bits 4-5 = 01) with payload bit
\* 5, IN03 case 1 an ignition-tracked case (bits 6-7 = 01)
SourcesRecords ==
    CaseImage(OnAddr(0, 0), 6, 65282, 30, 1, 0, Zero8, Zero8, Byte0(1))
    @@ CaseImage(OnAddr(1, 0), 5, 65284, 30, 16, 0, Zero8, Zero8, Byte0(32))
    @@ CaseImage(OnAddr(2, 1), 6, 65283, 30, 64, 0, Zero8, Zero8, Byte0(4))

SourcesProvisioning ==
    [ a \in 0 .. (EEPROM_SIZE - 1) |->
        IF a \in DOMAIN SourcesRecords THEN SourcesRecords[a] ELSE 255 ]

\* the records of SourcesRecords with one source of the ignition wired: the
\* ignition input IN01 (input_num = 0) or the one-button start IN02
LoopRecords(input_num) ==
    (IF input_num = 0
     THEN CaseImage(OnAddr(0, 0), 6, 65282, 30, 1, 0, Zero8, Zero8, Byte0(1))
     ELSE CaseImage(OnAddr(1, 0), 5, 65284, 30, 16, 0, Zero8, Zero8, Byte0(32)))
    @@ CaseImage(OnAddr(2, 1), 6, 65283, 30, 64, 0, Zero8, Zero8, Byte0(4))

LoopProvisioning(input_num) ==
    LET records == LoopRecords(input_num)
    IN  [ a \in 0 .. (EEPROM_SIZE - 1) |->
            IF a \in DOMAIN records THEN records[a] ELSE 255 ]

\* the two OFF cases of IN32, the last records of the layout
LayoutRecords ==
    CaseImage(OffAddr(31, 0), 3, 65284, 31, 0, 0, Zero8, Zero8, Byte0(8))
    @@ CaseImage(OffAddr(31, 1), 6, 65285, 31, 0, 0, Zero8, Zero8, <<1, 2, 3, 4, 5, 6, 7, 8>>)

LayoutProvisioning ==
    [ a \in 0 .. (EEPROM_SIZE - 1) |->
        IF a \in DOMAIN LayoutRecords THEN LayoutRecords[a] ELSE 255 ]

\* the whole device: the records above, every other byte erased
Provisioning(pattern) ==
    LET records == Records(pattern)
    IN  [ a \in 0 .. (EEPROM_SIZE - 1) |->
            IF a \in DOMAIN records THEN records[a] ELSE 255 ]

(***************************************************************************)
(* Byte access to the store (eeprom_config.c, eeprom_init) and the CAN     *)
(* configuration protocol (can_config.c).  The store is the collaborator   *)
(* behind the word erase, write and verify: an accepted word write         *)
(* completes and the store holds the word written.  The operators take the *)
(* store and the statics of their file and give the values after the call. *)
(***************************************************************************)
\* a C truth value
Bool(b) == IF b THEN 1 ELSE 0

CAN_CONFIG_GUARD_BYTE == 119

CAN_CONFIG_STATUS_SUCCESS == 1

CAN_CONFIG_STATUS_BAD_GUARD == 225

CAN_CONFIG_STATUS_VERIFY_FAILED == 229

CAN_CONFIG_STATUS_ADDR_OUT_OF_RANGE == 230

CAN_CONFIG_MAX_WRITE_ADDR == 4095

CAN_CONFIG_MAX_READ_ADDR == 4095

EEPROM_CFG_FW_MAJOR == 4

EEPROM_CFG_FW_MINOR == 5

EEPROM_CFG_WRITE_REQ_PGN_A == 10

EEPROM_CFG_WRITE_REQ_SA == 12

EEPROM_CFG_READ_REQ_PGN_A == 13

EEPROM_CFG_READ_REQ_SA == 15

EEPROM_CFG_RESPONSE_PGN_A == 16

EEPROM_CFG_RESPONSE_SA == 18

EEPROM_CFG_SERIAL_NUMBER == 22

\* the widths of the counters
Wrap16(n) == n % 65536

\* modulo 2^32, taken half by half
Wrap32(n) == (n % 65536) + 65536 * ((n \div 65536) % 65536)

\* the statics of eeprom_config.c and of eeprom_init as they are initialised
NoByteAccess == [ byte_read_count |-> 0, byte_write_count |-> 0, write_failures |-> 0 ]

NoWordWritten ==
    [ write_errors |-> 0, words_written |-> 0, last_error_type |-> 0, write_attempts |-> 0 ]

\* byte_addr & 0xFFFE
WordAddress(byte_addr) == byte_addr - (byte_addr % 2)

\* EEPROM_ReadWord (eeprom_config.c): 0xFFFF for an odd address, else the
\* word of the store at the address, low byte at the even byte address
EEPROM_ReadWord(store, word_addr) ==
    IF word_addr % 2 = 1 THEN 65535
    ELSE store[word_addr] + 256 * store[word_addr + 1]

\* the store after a word write that was accepted
WordWritten(store, word_addr, data) ==
    [store EXCEPT ![word_addr] = data % 256, ![word_addr + 1] = data \div 256]

\* EEPROM_WriteWord (eeprom_config.c, static)
Config_EEPROM_WriteWord(store, statics, word_addr, data) ==
    IF word_addr % 2 = 1 \/ word_addr >= 4096
    THEN [ result |-> 0, store |-> store,
           statics |-> [statics EXCEPT !.write_failures = Wrap16(@ + 1)] ]
    ELSE [ result |-> 1, store |-> WordWritten(store, word_addr, data), statics |-> statics ]

\* EEPROM_Config_ReadByte: the byte returned
EEPROM_Config_ReadByte(store, byte_addr) ==
    LET word_value == EEPROM_ReadWord(store, WordAddress(byte_addr))
    IN  IF byte_addr % 2 = 1 THEN (word_value \div 256) % 256
        ELSE word_value % 256

\* the statics of eeprom_config.c after n calls of EEPROM_Config_ReadByte
BytesRead(statics, n) == [statics EXCEPT !.byte_read_count = Wrap32(@ + n)]

\* a byte write that puts the byte in its half of the word and clears the
\* other half
EEPROM_Config_WriteByteWholeWord(store, statics, byte_addr, value) ==
    LET word_value == IF byte_addr % 2 = 1 THEN 256 * value ELSE value
        written == Config_EEPROM_WriteWord(store, statics, WordAddress(byte_addr), word_value)
    IN  IF written.result = 1
        THEN [written EXCEPT !.statics.byte_write_count = Wrap32(@ + 1)]
        ELSE written

\* EEPROM_Config_WriteByte: read the word, replace the byte, write the word
EEPROM_Config_WriteByte(store, statics, byte_addr, value) ==
    LET word_addr == WordAddress(byte_addr)
        word_value == EEPROM_ReadWord(store, word_addr)
        modified == IF byte_addr % 2 = 1
                    THEN (word_value % 256) + 256 * value
                    ELSE 256 * (word_value \div 256) + value
        written == Config_EEPROM_WriteWord(store, statics, word_addr, modified)
    IN  IF written.result = 1
        THEN [written EXCEPT !.statics.byte_write_count = Wrap32(@ + 1)]
        ELSE written

\* EEPROM_Config_ReadPGN: high byte first
EEPROM_Config_ReadPGN(store, pgn_a_addr) ==
    256 * EEPROM_Config_ReadByte(store, pgn_a_addr)
    + EEPROM_Config_ReadByte(store, pgn_a_addr + 1)

\* EEPROM_WriteWord (eeprom_init)
EEPROM_WriteWord(store, statics, address, data) ==
    LET attempted == [statics EXCEPT !.write_attempts = Wrap16(@ + 1)]
    IN  IF address % 2 = 1 \/ address >= 4096
        THEN [ result |-> 0, store |-> store,
               statics |-> [attempted EXCEPT !.write_errors = Wrap16(@ + 1),
                                             !.last_error_type = 3] ]
        ELSE [ result |-> 1, store |-> WordWritten(store, address, data),
               statics |-> [attempted EXCEPT !.words_written = Wrap16(@ + 1),
                                             !.last_error_type = 0] ]

\* EEPROM_Init_WriteByte
EEPROM_Init_WriteByte(store, statics, byte_addr, value) ==
    IF byte_addr >= 4096
    THEN [ result |-> 0, store |-> store,
           statics |-> [statics EXCEPT !.write_errors = Wrap16(@ + 1),
                                       !.last_error_type = 3] ]
    ELSE LET word_addr == WordAddress(byte_addr)
             current_word == store[word_addr] + 256 * store[word_addr + 1]
             new_word == IF byte_addr % 2 = 1
                         THEN (current_word % 256) + 256 * value
                         ELSE 256 * (current_word \div 256) + value
         IN  EEPROM_WriteWord(store, statics, word_addr, new_word)

\* the calls of EEPROM_Config_ReadByte that CAN_Config_Reload makes
ReloadReads == 11

\* CAN_Config_Reload: the statics of can_config.c with the cache read again
CAN_Config_Reload(store, statics) ==
    [statics EXCEPT
        !.cached_read_pgn = EEPROM_Config_ReadPGN(store, EEPROM_CFG_READ_REQ_PGN_A),
        !.cached_write_pgn = EEPROM_Config_ReadPGN(store, EEPROM_CFG_WRITE_REQ_PGN_A),
        !.cached_response_pgn = EEPROM_Config_ReadPGN(store, EEPROM_CFG_RESPONSE_PGN_A),
        !.cached_read_sa = EEPROM_Config_ReadByte(store, EEPROM_CFG_READ_REQ_SA),
        !.cached_write_sa = EEPROM_Config_ReadByte(store, EEPROM_CFG_WRITE_REQ_SA),
        !.cached_response_sa = EEPROM_Config_ReadByte(store, EEPROM_CFG_RESPONSE_SA),
        !.cached_fw_major = EEPROM_Config_ReadByte(store, EEPROM_CFG_FW_MAJOR),
        !.cached_fw_minor = EEPROM_Config_ReadByte(store, EEPROM_CFG_FW_MINOR)]

\* CAN_Config_Init: the counters as they are initialised, the cache loaded
CAN_Config_Init(store) ==
    CAN_Config_Reload(store,
        [ cached_read_pgn |-> 0, cached_write_pgn |-> 0, cached_response_pgn |-> 0,
          cached_read_sa |-> 0, cached_write_sa |-> 0, cached_response_sa |-> 0,
          cached_fw_major |-> 0, cached_fw_minor |-> 0,
          read_request_count |-> 0, write_request_count |-> 0, bad_guard_count |-> 0,
          verify_fail_count |-> 0, addr_range_error_count |-> 0 ])

\* the cached configuration of the statics
CachedConfiguration(statics) ==
    << statics.cached_read_pgn, statics.cached_write_pgn, statics.cached_response_pgn,
       statics.cached_read_sa, statics.cached_write_sa, statics.cached_response_sa,
       statics.cached_fw_major, statics.cached_fw_minor >>

CAN_Config_ExtractPGN(can_id) == (can_id \div 256) % 65536

CAN_Config_ExtractSA(can_id) == can_id % 256

\* a recogniser that compares the source address as well as the PGN
IsRequestFrom(can_id, pgn, source_addr) ==
    Bool(CAN_Config_ExtractPGN(can_id) = pgn /\ CAN_Config_ExtractSA(can_id) = source_addr)

\* CAN_Config_IsReadRequest and CAN_Config_IsWriteRequest compare the PGN
CAN_Config_IsReadRequest(statics, can_id) ==
    Bool(CAN_Config_ExtractPGN(can_id) = statics.cached_read_pgn)

CAN_Config_IsWriteRequest(statics, can_id) ==
    Bool(CAN_Config_ExtractPGN(can_id) = statics.cached_write_pgn)

\* no response has been handed to J1939_TransmitMessage
NoResponse == [ priority |-> 0, pgn |-> 0, source_addr |-> 0, data |-> Zero8 ]

\* no frame has been given to CAN_Config_ProcessMessage
NoRequest == [ id |-> 0, data |-> Zero8, valid |-> 0, handled |-> 0 ]

\* CAN_Config_SendResponse: the frame handed to J1939_TransmitMessage
CAN_Config_SendResponse(statics, addr, value, status) ==
    [ priority |-> 3, pgn |-> statics.cached_response_pgn,
      source_addr |-> statics.cached_response_sa,
      data |-> << statics.cached_fw_major, statics.cached_fw_minor, value,
                  addr % 256, addr \div 256, status, 0, 0 >> ]

\* the address of a request, little-endian in data[1] and data[2]
RequestAddress(msg) == msg.data[2] + 256 * msg.data[3]

\* a read handler that takes every guard byte for the guard
HandleReadRequestUnguarded(store, cc, ec, ei, msg) ==
    LET counted == [cc EXCEPT !.read_request_count = Wrap32(@ + 1)]
        addr == RequestAddress(msg)
    IN  IF addr > CAN_CONFIG_MAX_READ_ADDR
        THEN [ store |-> store, ec |-> ec, ei |-> ei,
               cc |-> [counted EXCEPT !.addr_range_error_count = Wrap16(@ + 1)],
               response |-> CAN_Config_SendResponse(cc, addr, 0,
                                                    CAN_CONFIG_STATUS_ADDR_OUT_OF_RANGE) ]
        ELSE [ store |-> store, ec |-> BytesRead(ec, 1), ei |-> ei, cc |-> counted,
               response |-> CAN_Config_SendResponse(cc, addr,
                                EEPROM_Config_ReadByte(store, addr),
                                CAN_CONFIG_STATUS_SUCCESS) ]

\* CAN_Config_HandleReadRequest
CAN_Config_HandleReadRequest(store, cc, ec, ei, msg) ==
    LET counted == [cc EXCEPT !.read_request_count = Wrap32(@ + 1)]
        addr == RequestAddress(msg)
    IN  IF msg.data[1] # CAN_CONFIG_GUARD_BYTE
        THEN [ store |-> store, ec |-> ec, ei |-> ei,
               cc |-> [counted EXCEPT !.bad_guard_count = Wrap16(@ + 1)],
               response |-> CAN_Config_SendResponse(cc, 0, 0, CAN_CONFIG_STATUS_BAD_GUARD) ]
        ELSE IF addr > CAN_CONFIG_MAX_READ_ADDR
        THEN [ store |-> store, ec |-> ec, ei |-> ei,
               cc |-> [counted EXCEPT !.addr_range_error_count = Wrap16(@ + 1)],
               response |-> CAN_Config_SendResponse(cc, addr, 0,
                                                    CAN_CONFIG_STATUS_ADDR_OUT_OF_RANGE) ]
        ELSE [ store |-> store, ec |-> BytesRead(ec, 1), ei |-> ei, cc |-> counted,
               response |-> CAN_Config_SendResponse(cc, addr,
                                EEPROM_Config_ReadByte(store, addr),
                                CAN_CONFIG_STATUS_SUCCESS) ]

\* CAN_Config_HandleWriteRequest (range check): addr > CAN_CONFIG_MAX_WRITE_ADDR
WriteOutOfRange(addr) == Bool(addr > CAN_CONFIG_MAX_WRITE_ADDR)

\* CAN_Config_HandleWriteRequest
CAN_Config_HandleWriteRequest(store, cc, ec, ei, msg) ==
    LET counted == [cc EXCEPT !.write_request_count = Wrap32(@ + 1)]
        addr == RequestAddress(msg)
        value == msg.data[4]
        written == EEPROM_Init_WriteByte(store, ei, addr, value)
        verify_value == EEPROM_Config_ReadByte(written.store, addr)
        reloaded == IF addr <= EEPROM_CFG_SERIAL_NUMBER
                    THEN CAN_Config_Reload(written.store, counted)
                    ELSE counted
        reads == IF addr <= EEPROM_CFG_SERIAL_NUMBER THEN 1 + ReloadReads ELSE 1
    IN  IF msg.data[1] # CAN_CONFIG_GUARD_BYTE
        THEN [ store |-> store, ec |-> ec, ei |-> ei,
               cc |-> [counted EXCEPT !.bad_guard_count = Wrap16(@ + 1)],
               response |-> CAN_Config_SendResponse(cc, 0, 0, CAN_CONFIG_STATUS_BAD_GUARD) ]
        ELSE IF WriteOutOfRange(addr) = 1
        THEN [ store |-> store, ec |-> ec, ei |-> ei,
               cc |-> [counted EXCEPT !.addr_range_error_count = Wrap16(@ + 1)],
               response |-> CAN_Config_SendResponse(cc, addr, value,
                                                    CAN_CONFIG_STATUS_ADDR_OUT_OF_RANGE) ]
        ELSE IF written.result = 0
        THEN [ store |-> written.store, ec |-> ec, ei |-> written.statics,
               cc |-> [counted EXCEPT !.verify_fail_count = Wrap16(@ + 1)],
               response |-> CAN_Config_SendResponse(cc, addr, value,
                                                    CAN_CONFIG_STATUS_VERIFY_FAILED) ]
        ELSE IF verify_value # value
        THEN [ store |-> written.store, ec |-> BytesRead(ec, 1), ei |-> written.statics,
               cc |-> [counted EXCEPT !.verify_fail_count = Wrap16(@ + 1)],
               response |-> CAN_Config_SendResponse(cc, addr, verify_value,
                                                    CAN_CONFIG_STATUS_VERIFY_FAILED) ]
        ELSE [ store |-> written.store, ec |-> BytesRead(ec, reads), ei |-> written.statics,
               cc |-> reloaded,
               response |-> CAN_Config_SendResponse(reloaded, addr, verify_value,
                                                    CAN_CONFIG_STATUS_SUCCESS) ]

(***************************************************************************)
(* Initial state: after Inputs_Init, InLink_Init and EEPROM_Cases_Init     *)
(***************************************************************************)
NoCycle == [ reason |-> 255, changed |-> {}, sent |-> {}, pruned |-> {} ]

\* no engine call waits for its result to be looked at
NoReturn ==
    [ fn |-> "none", input_num |-> 0, case_num |-> 0, flag |-> 0, address |-> 0,
      ret |-> 0, case_data |-> InvalidCase, bounds_errors |-> 0 ]

\* the entry FindOneButtonState creates: one_button_states[] zeroed
NoOneButton ==
    [ active |-> 0, ignition_was_on |-> 0, ignition_is_on |-> 0, starter_is_on |-> 0,
      ignition_set_this_press |-> 0 ]

\* the locals of main()'s dispatch loop and of the activation it runs, and
\* the engine calls that the function in progress has still to make
NoCall == [ input |-> 0, has_pattern |-> 0, on_time |-> 0, off_time |-> 0, calls |-> << >> ]

InitEngine ==
    /\ active_cases = ClearedList.cases
    /\ active_case_count = 0
    /\ pattern_timers = [i \in 0 .. (TOTAL_INPUTS - 1) |-> InactiveTimer]
    /\ bounds_errors = 0
    /\ input_states = [i \in 0 .. (TOTAL_INPUTS - 1) |-> 0]
    /\ ignition_flag = 0
    /\ can_ignition_state = 0
    /\ one_button_states = NoOneButton
    /\ inlink_messages = [i \in 0 .. (MAX_INLINK_MESSAGES - 1) |->
                            [ pgn |-> 0, source_addr |-> 0, data |-> Zero8, valid |-> 0 ]]
    /\ can_config = CAN_Config_Init(eeprom)
    /\ eeprom_config = [ NoByteAccess EXCEPT !.byte_read_count = ReloadReads ]
    /\ eeprom_init = NoWordWritten
    /\ config_response = NoResponse
    /\ config_request = NoRequest
    /\ prev_messages = << >>
    /\ pattern_changed = 0
    /\ state_changed = 0
    /\ prev_input_states = [i \in 0 .. (TOTAL_INPUTS - 1) |-> 0]
    /\ fg = NoCall
    /\ cycle = NoCycle
    /\ ticks = 0
    /\ call = NoReturn

\* pc = "api": the engine calls are made one at a time by a caller that the
\* specification does not place in main()
Init ==
    /\ eeprom = Provisioning(17)
    /\ InitEngine
    /\ pc = "api"

(***************************************************************************)
(* Engine calls as atomic actions.  Each action constrains the engine's    *)
(* own variables; the specification adds what else stays unchanged.        *)
(***************************************************************************)
List == [ cases |-> active_cases, count |-> active_case_count ]

\* EEPROM_HandleInputChange(input_num, new_state), input_num < TOTAL_INPUTS
HandleInputChange(input_num, new_state) ==
    LET r == HandleInputChangeList(List, input_num, new_state)
        t == IF new_state = 1
             THEN ConfigureTimer(pattern_timers[input_num], r.has_pattern, r.on_time, r.off_time)
             ELSE DisarmTimer(pattern_timers[input_num])
    IN  /\ input_num < TOTAL_INPUTS
        /\ bounds_errors + r.errs <= MaxBoundsErrors
        /\ active_cases' = r.list.cases
        /\ active_case_count' = r.list.count
        /\ pattern_timers' = [pattern_timers EXCEPT ![input_num] = t]
        /\ bounds_errors' = bounds_errors + r.errs
        /\ UNCHANGED eeprom

\* a rejection that forgets to count
RejectedCallUncounted(input_num) ==
    /\ input_num >= TOTAL_INPUTS
    /\ UNCHANGED << eeprom, active_cases, active_case_count, pattern_timers, bounds_errors >>

\* an engine call that fails its input_num validation: bounds_errors++ only
\* (HandleInputChange, SetManualCase, ClearManualCase)
RejectedCall(input_num) ==
    /\ input_num >= TOTAL_INPUTS
    /\ bounds_errors < MaxBoundsErrors
    /\ bounds_errors' = bounds_errors + 1
    /\ UNCHANGED << eeprom, active_cases, active_case_count, pattern_timers >>

SetManualCase(input_num, ignition_on, starter_on) ==
    LET r == SetManualList(List, input_num, ignition_on, starter_on)
    IN  /\ input_num < TOTAL_INPUTS
        /\ bounds_errors + r.errs <= MaxBoundsErrors
        /\ active_cases' = r.list.cases
        /\ active_case_count' = r.list.count
        /\ pattern_timers' = [pattern_timers EXCEPT ![input_num] = DisarmTimer(@)]
        /\ bounds_errors' = bounds_errors + r.errs
        /\ UNCHANGED eeprom

ClearManualCase(input_num) ==
    LET r == ClearManualList(List, input_num)
    IN  /\ input_num < TOTAL_INPUTS
        /\ bounds_errors + r.errs <= MaxBoundsErrors
        /\ active_cases' = r.list.cases
        /\ active_case_count' = r.list.count
        /\ pattern_timers' = [pattern_timers EXCEPT ![input_num] = DisarmTimer(@)]
        /\ bounds_errors' = bounds_errors + r.errs
        /\ UNCHANGED eeprom

UpdateIgnitionTrackedCases(ignition_flag_arg) ==
    LET r == UpdateIgnitionTrackedList(List, ignition_flag_arg)
    IN  /\ bounds_errors + r.errs <= MaxBoundsErrors
        /\ active_cases' = r.list.cases
        /\ active_case_count' = r.list.count
        /\ bounds_errors' = bounds_errors + r.errs
        /\ UNCHANGED << eeprom, pattern_timers >>

RemoveMarkedCases ==
    /\ active_cases' = RemoveMarkedList(List).cases
    /\ active_case_count' = RemoveMarkedList(List).count
    /\ UNCHANGED << eeprom, pattern_timers, bounds_errors >>

ClearActiveCases ==
    /\ active_cases' = ClearedList.cases
    /\ active_case_count' = 0
    /\ UNCHANGED << eeprom, pattern_timers, bounds_errors >>

\* EEPROM_Pattern_UpdateTimers
Tick ==
    /\ pattern_timers' = EEPROM_Pattern_UpdateTimers(pattern_timers)
    /\ UNCHANGED << eeprom, active_cases, active_case_count, bounds_errors >>

(***************************************************************************)
(* The callers' side of the calls (main.c, inputs.c)                       *)
(***************************************************************************)
\* main.c dispatches an input whose debounced state has changed: the state
\* is new_state when EEPROM_HandleInputChange(input_num, new_state) runs
DispatchInput(input_num, new_state) ==
    /\ input_states[input_num] # new_state
    /\ HandleInputChange(input_num, new_state)
    /\ input_states' = [input_states EXCEPT ![input_num] = new_state]
    /\ UNCHANGED << ignition_flag, can_ignition_state, one_button_states, inlink_messages, ConfigVars >>

\* inputs.c: ignition_flag = f; EEPROM_UpdateIgnitionTrackedCases(ignition_flag)
SetIgnition(f) ==
    /\ UpdateIgnitionTrackedCases(f)
    /\ ignition_flag' = f
    /\ UNCHANGED << input_states, can_ignition_state, one_button_states, inlink_messages, ConfigVars >>

(***************************************************************************)
(* Spec: every sequence of engine calls on the active case list, each call *)
(* atomic, for IN01 (ON cases, a tracked case, an OFF case) and IN03 (two  *)
(* ON cases on one identifier, a pattern)                                  *)
(***************************************************************************)
ListInputs == {0, 2}

Rest == UNCHANGED << InputVars, MainVars, HistVars >>

Next ==
    \/ \E i \in ListInputs, s \in {0, 1} : HandleInputChange(i, s) /\ Rest
    \/ \E i \in ListInputs, st \in {0, 1} : SetManualCase(i, 1, st) /\ Rest
    \/ \E i \in ListInputs : ClearManualCase(i) /\ Rest
    \/ \E f \in {0, 1} : UpdateIgnitionTrackedCases(f) /\ Rest
    \/ RemoveMarkedCases /\ Rest
    \/ ClearActiveCases /\ Rest

Spec == Init /\ [][Next]_vars

(***************************************************************************)
(* SpecIgnition: the ignition flag with the tracked cases that follow it,  *)
(* the input transitions of IN01 (owner of the tracked case) and IN03, and *)
(* the pruning that ends every transmit cycle                              *)
(***************************************************************************)
NextIgnition ==
    \/ \E i \in ListInputs, s \in {0, 1} :
          DispatchInput(i, s) /\ UNCHANGED << MainVars, HistVars >>
    \/ \E f \in {0, 1} : SetIgnition(f) /\ UNCHANGED << MainVars, HistVars >>
    \/ RemoveMarkedCases /\ Rest

SpecIgnition == Init /\ [][NextIgnition]_vars

(***************************************************************************)
(* Claims checked under Spec                                               *)
(***************************************************************************)
ActiveSlots == 0 .. (active_case_count - 1)

OwnsEntry(input_num) ==
    \E k \in ActiveSlots : active_cases[k].input_num = input_num

HoldsTrackedEntry ==
    \E k \in ActiveSlots :
        EEPROM_IsTrackIgnitionCase(active_cases[k].input_num, active_cases[k].case_num)

ListUnchanged == UNCHANGED << active_cases, active_case_count >>

ListWithinCapacity ==
    /\ active_case_count <= MAX_ACTIVE_CASES
    /\ DOMAIN active_cases \subseteq Slots

\* a call that finds the list full and owns nothing it could remove first
\* can only attempt insertions, and each of them is dropped
FullListInsertDropped ==
    active_case_count = MAX_ACTIVE_CASES =>
        /\ \A i \in ListInputs, s \in {0, 1} :
              (~OwnsEntry(i) /\ HandleInputChange(i, s)) => ListUnchanged
        /\ \A i \in ListInputs, st \in {0, 1} :
              (~OwnsEntry(i) /\ SetManualCase(i, 1, st)) => ListUnchanged
        /\ \A i \in ListInputs :
              (~OwnsEntry(i) /\ ClearManualCase(i)) => ListUnchanged
        /\ \A f \in {0, 1} :
              (~HoldsTrackedEntry /\ UpdateIgnitionTrackedCases(f)) => ListUnchanged

\* C1: after any sequence of HandleInputChange, SetManualCase,
\* ClearManualCase, UpdateIgnitionTrackedCases, RemoveMarkedCases and
\* ClearActiveCases calls the count is at most MAX_ACTIVE_CASES and no slot
\* outside the array has been written; a call that attempts insertions into
\* a full list leaves the list as it was.
C1_Capacity ==
    /\ []ListWithinCapacity
    /\ [][FullListInsertDropped]_vars

\* C1 witness: the list is full and ends with IN03's first ON case, whose
\* second ON case, loaded right after it by the same activation, was dropped
C1_Witness ==
    /\ active_case_count = MAX_ACTIVE_CASES
    /\ active_cases[MAX_ACTIVE_CASES - 1].input_num = 2
    /\ active_cases[MAX_ACTIVE_CASES - 1].case_num = 0
    /\ active_cases[MAX_ACTIVE_CASES - 1].is_on_case = 1
    /\ ~\E k \in ActiveSlots :
           active_cases[k].input_num = 2 /\ active_cases[k].case_num = 1

ListAfter == [ cases |-> active_cases', count |-> active_case_count' ]

Id(e) == << e.case_data.pgn, e.case_data.source_addr >>

\* the entries of list that input_num owns
OwnedEntries(list, input_num) ==
    { k \in 0 .. (list.count - 1) : list.cases[k].input_num = input_num }

IsClearingEntry(e) ==
    /\ e.is_on_case = 0
    /\ e.needs_removal_after_send = 1
    /\ e.case_data.valid = 1
    /\ e.case_data.data = Zero8

\* the list and the timer of input_num after EEPROM_HandleInputChange(i, 1)
\* and then EEPROM_HandleInputChange(i, 0)
OnThenOff(input_num) ==
    LET on  == HandleInputChangeList(List, input_num, 1)
        off == HandleInputChangeList(on.list, input_num, 0)
    IN  [ list |-> off.list,
          timer |-> DisarmTimer(ConfigureTimer(pattern_timers[input_num],
                                               on.has_pattern, on.on_time, on.off_time)) ]

\* C4: from every list state, activating and then deactivating input i
\* leaves only one-shot entries owned by i, and i's pattern timer Inactive.
C4_Symmetry ==
    \A i \in ListInputs :
        LET r == OnThenOff(i)
        IN  /\ \A k \in OwnedEntries(r.list, i) :
                  r.list.cases[k].needs_removal_after_send = 1
            /\ r.timer.state = PATTERN_STATE_INACTIVE

\* C4 witness: IN03 has been activated (its timer still holds the armed
\* durations) and then deactivated: its clearing entry is pending, nothing
\* persistent of IN03 is left and the timer is Inactive
C4_Witness ==
    /\ pattern_timers[2].on_time # 0
    /\ pattern_timers[2].state = PATTERN_STATE_INACTIVE
    /\ \E k \in OwnedEntries(List, 2) : IsClearingEntry(active_cases[k])
    /\ \A k \in OwnedEntries(List, 2) : active_cases[k].needs_removal_after_send = 1

\* payload byte 0 of the first ON case has no bit or several bits set
PrimaryBitUndetermined(input_num) ==
    LET b == ReadEEPROMByte(EEPROM_GetCaseAddress(input_num, 0, TRUE) + 24)
    IN  /\ EEPROM_ReadCase(EEPROM_GetCaseAddress(input_num, 0, TRUE)).valid = 1
        /\ Cardinality({ k \in 0..7 : TestBit(b, Pow2(k)) }) # 1

\* C7: when the primary bit of the input's first ON case cannot be
\* determined, EEPROM_SetManualCase returns 0 and leaves the list, its count
\* and every pattern timer as they were.
C7_FailureNoMutation ==
    [][ \A i \in ListInputs, st \in {0, 1} :
          (PrimaryBitUndetermined(i) /\ SetManualCase(i, 1, st)) =>
              /\ SetManualList(List, i, 1, st).ret = 0
              /\ UNCHANGED << active_cases, active_case_count, pattern_timers >> ]_vars

\* C7 witness: a list that holds entries of IN03, whose first ON case has
\* two payload bits set
C7_Witness ==
    /\ PrimaryBitUndetermined(2)
    /\ \E k \in OwnedEntries(List, 2) : active_cases[k].is_on_case = 1

\* C9: an activation inserts a clearing entry for a captured pair only if
\* none of the ON cases it loads carries that identifier.
C9_ClearingOnlyIfNotRecreated ==
    [][ \A i \in ListInputs :
          HandleInputChange(i, 1) =>
              ~\E k \in OwnedEntries(ListAfter, i), l \in OwnedEntries(ListAfter, i) :
                  /\ IsClearingEntry(active_cases'[k])
                  /\ active_cases'[l].is_on_case = 1
                  /\ Id(active_cases'[k]) = Id(active_cases'[l]) ]_vars

\* C9 witness: IN03 active with both its ON cases on one identifier
C9_Witness ==
    \E k \in OwnedEntries(List, 2) :
        active_cases[k].is_on_case = 1 /\ active_cases[k].case_num = 0

\* the identifiers of the ON entries input_num owns
OnIds(list, input_num) ==
    { Id(list.cases[k]) : k \in { j \in OwnedEntries(list, input_num) :
                                     list.cases[j].is_on_case # 0 } }

AllIds(list) == { Id(list.cases[k]) : k \in 0 .. (list.count - 1) }

\* C10: a deactivation inserts exactly one clearing entry for each distinct
\* identifier among the ON entries the input owned, and none for an
\* identifier that only its OFF or clearing entries held.
C10_OneClearingPerId ==
    [][ \A i \in ListInputs :
          HandleInputChange(i, 0) =>
              \A id \in AllIds(List) \cup AllIds(ListAfter) :
                  Cardinality({ k \in OwnedEntries(ListAfter, i) :
                                  /\ IsClearingEntry(active_cases'[k])
                                  /\ Id(active_cases'[k]) = id })
                  = IF id \in OnIds(List, i) THEN 1 ELSE 0 ]_vars

\* C10 witness: one clearing entry of IN03 stands for the identifier that
\* both of its ON cases carried, with IN03's timer disarmed after arming
C10_Witness ==
    /\ pattern_timers[2].on_time # 0
    /\ pattern_timers[2].has_pattern = 0
    /\ Cardinality({ k \in OwnedEntries(List, 2) : IsClearingEntry(active_cases[k]) }) = 1
    /\ ~\E k \in OwnedEntries(List, 2) : active_cases[k].is_on_case = 1

(***************************************************************************)
(* Claims checked under SpecIgnition                                       *)
(***************************************************************************)
\* every valid tracked case of the store stands in list as a persistent ON
\* entry
TrackedAllPresent(list) ==
    \A j \in 1 .. Len(TrackedScan) :
        LET s == TrackedScan[j]
        IN  EEPROM_ReadCase(EEPROM_GetCaseAddress(s.input_num, s.case_num, TRUE)).valid = 1
            => \E k \in 0 .. (list.count - 1) :
                   /\ list.cases[k].input_num = s.input_num
                   /\ list.cases[k].case_num = s.case_num
                   /\ list.cases[k].is_on_case = 1
                   /\ list.cases[k].needs_removal_after_send = 0

\* C3: while ignition stays on, the tracked cases stay in the list as
\* persistent entries across activations and deactivations of their owning
\* inputs; an activation may lose one only to a full list.
C3_TrackedStayWhileIgnitionOn ==
    [][ \A i \in ListInputs, s \in {0, 1} :
          ( /\ ignition_flag = 1
            /\ TrackedAllPresent(List)
            /\ DispatchInput(i, s) )
          => \/ TrackedAllPresent(ListAfter)
             \/ s = 1 /\ active_case_count' = MAX_ACTIVE_CASES ]_vars

\* C3 witness: ignition is on and the tracked case of IN01 is in the list
C3_Witness ==
    /\ ignition_flag = 1
    /\ Len(TrackedScan) > 0
    /\ TrackedAllPresent(List)

\* a persistent ON entry of a case that the store marks ignition-tracked
IsTrackedEntry(e) ==
    /\ e.is_on_case = 1
    /\ EEPROM_IsTrackIgnitionCase(e.input_num, e.case_num)

TrackedIds(list) ==
    { Id(list.cases[k]) : k \in { j \in 0 .. (list.count - 1) :
                                     IsTrackedEntry(list.cases[j]) } }

\* the one-shot all-zero entries on id that the sentinel owns
SentinelClearing(list, id) ==
    { k \in OwnedEntries(list, NO_INPUT) :
        IsClearingEntry(list.cases[k]) /\ Id(list.cases[k]) = id }

\* C14: EEPROM_UpdateIgnitionTrackedCases(0) inserts one one-shot all-zero
\* entry owned by 0xFF for each distinct identifier that an ignition-tracked
\* entry of the list held before the call (as far as the capacity allows),
\* and none for an identifier that no such entry held.
C14_ClearingForHeldIds ==
    [][ SetIgnition(0) =>
          \A id \in AllIds(List) \cup AllIds(ListAfter) :
              LET inserted == Cardinality(SentinelClearing(ListAfter, id))
                              - Cardinality(SentinelClearing(List, id))
              IN  IF id \in TrackedIds(List)
                  THEN inserted = 1 \/ active_case_count' = MAX_ACTIVE_CASES
                  ELSE inserted = 0 ]_vars

\* C14 witness: ignition is off and a clearing entry of the sentinel is in
\* the list
C14_Witness ==
    /\ ignition_flag = 0
    /\ \E k \in OwnedEntries(List, NO_INPUT) : IsClearingEntry(active_cases[k])

\* a is b with some of its elements left out
RECURSIVE IsSubsequence(_, _)
IsSubsequence(a, b) ==
    IF a = << >> THEN TRUE
    ELSE IF b = << >> THEN FALSE
    ELSE IF Head(a) = Head(b) THEN IsSubsequence(Tail(a), Tail(b))
    ELSE IsSubsequence(a, Tail(b))

\* C15: EEPROM_UpdateIgnitionTrackedCases, with either argument, removes
\* only entries that are ignition-tracked ON cases: every clearing entry,
\* OFF-case entry and entry of a case not marked tracked that was in the list
\* is still in it afterwards, with unchanged contents and relative order.
C15_OnlyTrackedRemoved ==
    [][ \A f \in {0, 1} :
          SetIgnition(f) =>
              IsSubsequence(SelectSeq(ListSeq(List), LAMBDA e : ~IsTrackedEntry(e)),
                            ListSeq(ListAfter)) ]_vars

\* C15 witness: a one-shot clearing entry whose input and case number are
\* those of a tracked case waits in the list
C15_Witness ==
    \E k \in ActiveSlots :
        /\ IsClearingEntry(active_cases[k])
        /\ EEPROM_IsTrackIgnitionCase(active_cases[k].input_num, active_cases[k].case_num)

(***************************************************************************)
(* SpecPattern: the pattern timer of IN03.  The store is drawn with every  *)
(* pattern nibble pair up to MaxNibble in IN03's first ON case; IN03 is    *)
(* switched on and off and the timer interrupt ticks the bank.  ticks      *)
(* counts the EEPROM_Pattern_UpdateTimers calls since the last transition  *)
(* of IN03.                                                                *)
(***************************************************************************)
InitPattern ==
    /\ eeprom \in { Provisioning(16 * on + off) :
                      on \in 0 .. MaxNibble, off \in 0 .. MaxNibble }
    /\ InitEngine
    /\ pc = "api"

SwitchIN03(new_state) ==
    /\ DispatchInput(2, new_state)
    /\ ticks' = 0
    /\ UNCHANGED << MainVars, cycle, call >>

PatternTick ==
    /\ ticks < MaxTicks
    /\ Tick
    /\ ticks' = ticks + 1
    /\ UNCHANGED << InputVars, MainVars, cycle, call >>

NextPattern ==
    \/ \E s \in {0, 1} : SwitchIN03(s)
    \/ PatternTick

SpecPattern == InitPattern /\ [][NextPattern]_vars

(***************************************************************************)
(* Claims checked under SpecPattern                                        *)
(***************************************************************************)
PatternArmed ==
    /\ pattern_timers[2].has_pattern = 1
    /\ pattern_timers[2].state # PATTERN_STATE_INACTIVE

d_on == pattern_timers[2].on_time

d_off == pattern_timers[2].off_time

\* the first ON phase is seen at arming and after each of the first d_on
\* ticks; from then on OFF phases of Max(d_off, 1) ticks alternate with ON
\* phases of Max(d_on, 1) ticks
OnAfter(k) ==
    \/ k <= d_on
    \/ (k - d_on - 1) % (Max(d_off, 1) + Max(d_on, 1)) >= Max(d_off, 1)

\* every phase seen for its duration plus one, the first ON phase counted
\* from arming
OnAfterPlusOne(k) == k % (d_on + d_off + 2) <= d_on

\* C5 (amended): an armed timer reports the ON phase at arming and after each
\* of the first d_on ticks (d_on + 1 observations), then OFF after each of the
\* next Max(d_off, 1) ticks, and every later phase lasts Max(duration, 1)
\* ticks; for d_on = 3, d_off = 2: ON at arming and after ticks 1..3, OFF
\* after ticks 4 and 5, ON again after tick 6.
C5_PhaseLengths ==
    PatternArmed => (EEPROM_Pattern_IsInOnPhase(2) <=> OnAfter(ticks))

\* C5 as stated: ON for d_on + 1 ticks, then OFF for d_off + 1 ticks, and
\* every later phase for its duration plus one tick.
C5_DurationPlusOne ==
    PatternArmed => (EEPROM_Pattern_IsInOnPhase(2) <=> OnAfterPlusOne(ticks))

\* C5 witness: with d_on = 3 and d_off = 2 the second ON phase has begun
\* after the sixth tick
C5_Witness ==
    /\ PatternArmed
    /\ d_on = 3
    /\ d_off = 2
    /\ ticks = 6
    /\ EEPROM_Pattern_IsInOnPhase(2)

(***************************************************************************)
(* SpecAggregate: IN01, IN03 (pattern) and IN23 (overridable, on IN03's    *)
(* identifier) are switched, the timer interrupt ticks the bank and the    *)
(* transmit cycle prunes; aggregation is evaluated in every state          *)
(***************************************************************************)
AggregateInputs == {0, 2, 22}

NextAggregate ==
    \/ \E i \in AggregateInputs, s \in {0, 1} :
          DispatchInput(i, s) /\ UNCHANGED << MainVars, HistVars >>
    \/ Tick /\ Rest
    \/ RemoveMarkedCases /\ Rest

SpecAggregate == Init /\ [][NextAggregate]_vars

(***************************************************************************)
(* Claims checked under SpecAggregate                                      *)
(***************************************************************************)
\* the byte whose bit b is set iff some byte of S has bit b set
RECURSIVE OrOfBytes(_, _)
OrOfBytes(S, b) ==
    IF b > 7 THEN 0
    ELSE (IF \E x \in S : TestBit(x, Pow2(b)) THEN Pow2(b) ELSE 0) + OrOfBytes(S, b + 1)

OrOfPayloads(S) == [k \in 1..8 |-> OrOfBytes({ d[k] : d \in S }, 0)]

\* the OR of the payloads of the active entries on id whose owning input has
\* an armed pattern timer, whatever its phase
ArmedPayloadMask(id) ==
    OrOfPayloads({ active_cases[k].case_data.data :
                     k \in { j \in ActiveSlots :
                               /\ active_cases[j].case_data.valid = 1
                               /\ Id(active_cases[j]) = id
                               /\ active_cases[j].input_num < TOTAL_INPUTS
                               /\ pattern_timers[active_cases[j].input_num].has_pattern = 1 } })

InOffPhase(input_num) ==
    /\ input_num < TOTAL_INPUTS
    /\ pattern_timers[input_num].has_pattern = 1
    /\ pattern_timers[input_num].state # PATTERN_STATE_ON_PHASE

PrerequisitesHold(e) ==
    CheckInputConditions(e.case_data.must_be_on, e.case_data.must_be_off)

\* what an entry whose prerequisites hold gives to its bucket
Contribution(e) ==
    IF InOffPhase(e.input_num) THEN Zero8
    ELSE IF e.case_data.can_be_overridden = 1
    THEN AndNot8(e.case_data.data, ArmedPayloadMask(Id(e)))
    ELSE e.case_data.data

Contributors(id) ==
    { k \in ActiveSlots :
        /\ active_cases[k].case_data.valid = 1
        /\ Id(active_cases[k]) = id
        /\ PrerequisitesHold(active_cases[k]) }

Aggregated == EEPROM_GetAggregatedMessages(List, pattern_timers, MAX_UNIQUE_MESSAGES)

FirstContributor(id) ==
    CHOOSE k \in Contributors(id) : \A l \in Contributors(id) : k <= l

BucketId(m) == << m.pgn, m.source_addr >>

OwnerArmed(e) == HasArmedPattern(pattern_timers, e.input_num)

\* C11 (amended): the priority of a bucket is that of its first contributor
\* in list order, and later contributors do not change it; the bucket carries
\* a pattern iff the owning input of any of its contributors has an armed
\* pattern timer, whether that contributor comes first or later.
C11_PriorityFirstPatternAny ==
    \A m \in 1 .. Len(Aggregated) :
        LET id == BucketId(Aggregated[m])
        IN  /\ Contributors(id) # {}
            /\ Aggregated[m].priority = active_cases[FirstContributor(id)].case_data.priority
            /\ Aggregated[m].has_pattern = 1
                  <=> \E k \in Contributors(id) : OwnerArmed(active_cases[k])

\* C11 as stated: both the priority and the carries-a-pattern flag of a
\* bucket are those of its first contributor in list order.
C11_FirstContributorBoth ==
    \A m \in 1 .. Len(Aggregated) :
        LET id == BucketId(Aggregated[m])
        IN  /\ Contributors(id) # {}
            /\ Aggregated[m].priority = active_cases[FirstContributor(id)].case_data.priority
            /\ Aggregated[m].has_pattern = 1
                  <=> OwnerArmed(active_cases[FirstContributor(id)])

\* C11 witness: the steady case of IN23 (priority 3, no pattern) contributes
\* first and the flashing case of IN03 (priority 6) second to one bucket
C11_Witness ==
    /\ active_case_count = 2
    /\ active_cases[0].input_num = 22
    /\ active_cases[1].input_num = 2
    /\ Contributors(Id(active_cases[0])) = {0, 1}
    /\ ~OwnerArmed(active_cases[0])
    /\ OwnerArmed(active_cases[1])
    /\ active_cases[0].case_data.priority # active_cases[1].case_data.priority

\* the active list with its entries in use rearranged by p
PermutedList(p) ==
    [ cases |-> [k \in Slots |-> IF k < active_case_count
                                 THEN active_cases[p[k + 1] - 1]
                                 ELSE active_cases[k]],
      count |-> active_case_count ]

\* the payload of the bucket of id in messages, << >> when it has none
PayloadOf(messages, id) ==
    LET j == FindId(messages, id[1], id[2])
    IN  IF j = 0 THEN << >> ELSE messages[j].data

Disjoint8(x, y) == \A k \in 1..8 : BitAnd(x[k], y[k]) = 0

\* two entries give their whole payloads to one bucket that nothing else
\* contributes to
PlainPair(k, l) ==
    /\ k # l
    /\ Contributors(Id(active_cases[k])) = {k, l}
    /\ \A e \in {k, l} : /\ ~InOffPhase(active_cases[e].input_num)
                         /\ active_cases[e].case_data.can_be_overridden = 0

\* C12: for every permutation of the entries of the active list, with the
\* timers and the input states as they are, aggregation yields the same
\* payload for every identifier; two entries on one identifier with disjoint
\* payloads A and B give the bucket payload A | B in either order.
C12_PayloadOrderIndependent ==
    \A p \in Permutations(1 .. active_case_count) :
        LET messages == EEPROM_GetAggregatedMessages(PermutedList(p), pattern_timers,
                                                     MAX_UNIQUE_MESSAGES)
        IN  /\ \A id \in AllIds(List) :
                  PayloadOf(messages, id) = PayloadOf(Aggregated, id)
            /\ \A k \in ActiveSlots, l \in ActiveSlots :
                  ( /\ PlainPair(k, l)
                    /\ Disjoint8(active_cases[k].case_data.data,
                                 active_cases[l].case_data.data) )
                  => PayloadOf(messages, Id(active_cases[k])) =
                         [b \in 1..8 |-> active_cases[k].case_data.data[b]
                                          + active_cases[l].case_data.data[b]]

\* C12 witness: the two ON cases of IN03 (0xC0, and 0x01 given while IN01 is
\* on) contribute disjoint non-zero payloads to one bucket in the ON phase
C12_Witness ==
    /\ PlainPair(0, 1)
    /\ active_cases[0].case_data.data[1] = 192
    /\ active_cases[1].case_data.data[1] = 1
    /\ PayloadOf(Aggregated, Id(active_cases[0]))[1] = 193

(***************************************************************************)
(* SpecOverride: the flashing case of IN03 is plain or overridable and has *)
(* no prerequisite or needs IN01 on; IN01, IN03 and the overridable IN23   *)
(* are switched, the timer interrupt ticks the bank and the transmit cycle *)
(* prunes                                                                  *)
(***************************************************************************)
InitOverride ==
    /\ eeprom \in { OverrideProvisioning(config, must_be_on) :
                      config \in {0, 4}, must_be_on \in {Zero8, Byte0(1)} }
    /\ InitEngine
    /\ pc = "api"

SpecOverride == InitOverride /\ [][NextAggregate]_vars

\* the masks of PASS 1 for the list and the bank as they are
MasksNow == PatternMasks(ListSeq(List), pattern_timers, << >>)

\* the overridable entries that PASS 2 merges outside an OFF phase
MergedOverridable ==
    { k \in ActiveSlots :
        /\ active_cases[k].case_data.valid = 1
        /\ active_cases[k].case_data.can_be_overridden # 0
        /\ PrerequisitesHold(active_cases[k])
        /\ ~InOffPhase(active_cases[k].input_num) }

\* the entry in slot k carries bit p of byte b and does not give it to its bucket
LosesBit(k, b, p) ==
    /\ TestBit(active_cases[k].case_data.data[b], Pow2(p))
    /\ ~TestBit(EffectiveData(active_cases[k], pattern_timers, MasksNow)[b], Pow2(p))

\* the entry in slot l is on the identifier of slot k, carries the bit and
\* has an armed pattern on its owning input
ArmedCarrier(k, l, b, p) ==
    /\ active_cases[l].case_data.valid = 1
    /\ Id(active_cases[l]) = Id(active_cases[k])
    /\ TestBit(active_cases[l].case_data.data[b], Pow2(p))
    /\ HasArmedPattern(pattern_timers, active_cases[l].input_num)

\* C39: an overridable entry loses a payload bit in the aggregation only if
\* a different active entry on its identifier carries the bit, has an armed
\* pattern on its owning input and itself passes CheckInputConditions: it
\* is never masked by its own payload nor by an entry whose prerequisites
\* fail.
C39_MaskedByPassingOthers ==
    \A k \in MergedOverridable : \A b \in 1 .. 8 : \A p \in 0 .. 7 :
        LosesBit(k, b, p)
            => \E l \in ActiveSlots \ {k} :
                  /\ ArmedCarrier(k, l, b, p)
                  /\ PrerequisitesHold(active_cases[l])

\* what holds: the bit is carried by an active entry on the identifier whose
\* owning input has an armed pattern, the entry itself or one whose
\* prerequisites fail included
C39_MaskedByArmedEntries ==
    \A k \in MergedOverridable : \A b \in 1 .. 8 : \A p \in 0 .. 7 :
        LosesBit(k, b, p) => \E l \in ActiveSlots : ArmedCarrier(k, l, b, p)

\* C39 witness: IN01 is off, so the flashing case of IN03, which needs IN01
\* on, fails its prerequisites; IN03's timer is in its ON phase and the
\* overridable entry of IN23 gives nothing to the bucket, which is all zero
C39_Witness ==
    /\ input_states[0] = 0
    /\ pattern_timers[2].has_pattern = 1
    /\ pattern_timers[2].state = PATTERN_STATE_ON_PHASE
    /\ \E l \in ActiveSlots :
          /\ active_cases[l].input_num = 2
          /\ ~PrerequisitesHold(active_cases[l])
    /\ \E k \in MergedOverridable :
          /\ active_cases[k].input_num = 22
          /\ EffectiveData(active_cases[k], pattern_timers, MasksNow) = Zero8
    /\ Len(Aggregated) = 1
    /\ Aggregated[1].data = Zero8

(***************************************************************************)
(* SpecScenario: the store holds the input-2 scenario (payload 0x80,        *)
(* pattern 0x33), with the case either plain or marked overridable; IN01   *)
(* and IN03 are switched, the timer interrupt ticks the bank and the       *)
(* transmit cycle prunes                                                   *)
(***************************************************************************)
InitScenario ==
    /\ eeprom \in { ScenarioProvisioning(config) : config \in {0, 4} }
    /\ InitEngine
    /\ pc = "api"

NextScenario ==
    \/ \E i \in ListInputs, s \in {0, 1} :
          DispatchInput(i, s) /\ UNCHANGED << MainVars, HistVars >>
    \/ Tick /\ Rest
    \/ RemoveMarkedCases /\ Rest

SpecScenario == InitScenario /\ [][NextScenario]_vars

\* an entry of an input with an armed pattern timer whose prerequisites hold
\* and which is the only contributor to its identifier
SolePatternContributor(k) ==
    /\ k \in ActiveSlots
    /\ active_cases[k].case_data.valid = 1
    /\ OwnerArmed(active_cases[k])
    /\ PrerequisitesHold(active_cases[k])
    /\ Contributors(Id(active_cases[k])) = {k}

\* the bucket of the entry is there, valid, carries a pattern, and has the
\* case payload in the ON phase and zeros otherwise
BucketFollowsPhase(k) ==
    LET e == active_cases[k]
        j == FindId(Aggregated, e.case_data.pgn, e.case_data.source_addr)
    IN  /\ j # 0
        /\ Aggregated[j].valid = 1
        /\ Aggregated[j].has_pattern = 1
        /\ Aggregated[j].data =
              IF pattern_timers[e.input_num].state = PATTERN_STATE_ON_PHASE
              THEN e.case_data.data ELSE Zero8

InitManual ==
    /\ eeprom \in { ManualProvisioning(bit) : bit \in {0, 5, 7} }
    /\ InitEngine
    /\ pc = "api"

NextManual ==
    \/ \E a \in {0, 1}, b \in {0, 1} : SetManualCase(0, a, b) /\ Rest
    \/ ClearManualCase(0) /\ Rest
    \/ \E s \in {0, 1} : HandleInputChange(2, s) /\ Rest
    \/ RemoveMarkedCases /\ Rest

SpecManual == InitManual /\ [][NextManual]_vars

\* the bits of payload byte 0 of the first ON case of the input
PrimaryBits(input_num) ==
    { b \in 0..7 :
        TestBit(ReadEEPROMByte(EEPROM_GetCaseAddress(input_num, 0, TRUE) + 24), Pow2(b)) }

FirstOnCase(input_num) == EEPROM_ReadCase(EEPROM_GetCaseAddress(input_num, 0, TRUE))

PersistentEntries(list, input_num) ==
    { k \in OwnedEntries(list, input_num) : list.cases[k].needs_removal_after_send = 0 }

\* byte 0 asked for: the primary bit for A, the bit one position lower for B
ExpectedByte0(b, A, B) ==
    (IF A = 1 THEN Pow2(b) ELSE 0) + (IF B = 1 THEN Pow2((b + 7) % 8) ELSE 0)

\* the call succeeded and left one persistent entry of the input, built from
\* its first ON case with the requested bits
ManualEntryBuilt(input_num, A, B) ==
    /\ SetManualList(List, input_num, A, B).ret = 1
    /\ Cardinality(PersistentEntries(ListAfter, input_num)) = 1
    /\ \A k \in PersistentEntries(ListAfter, input_num) :
          LET e == active_cases'[k]
              b == CHOOSE x \in PrimaryBits(input_num) : TRUE
          IN  /\ Id(e) = << FirstOnCase(input_num).pgn, FirstOnCase(input_num).source_addr >>
              /\ e.case_data.priority = FirstOnCase(input_num).priority
              /\ e.case_data.data = [Zero8 EXCEPT ![1] = ExpectedByte0(b, A, B)]

SinglePrimaryBit(input_num) ==
    /\ FirstOnCase(input_num).valid = 1
    /\ Cardinality(PrimaryBits(input_num)) = 1

AtMostOnePersistent == Cardinality(PersistentEntries(List, 0)) <= 1

CallRest == UNCHANGED << InputVars, MainVars, cycle, ticks >>

Return ==
    /\ call # NoReturn
    /\ call' = NoReturn
    /\ UNCHANGED << eeprom, EngineVars, InputVars, MainVars, cycle, ticks >>

CallGetCaseAddress(input_num, case_num, is_on_case) ==
    LET errs == EEPROM_GetCaseAddressErr(input_num, case_num, is_on_case)
    IN  /\ call = NoReturn
        /\ bounds_errors + errs <= MaxBoundsErrors
        /\ bounds_errors' = bounds_errors + errs
        /\ call' = [NoReturn EXCEPT !.fn = "EEPROM_GetCaseAddress",
                                    !.input_num = input_num, !.case_num = case_num,
                                    !.flag = Bool(is_on_case),
                                    !.ret = EEPROM_GetCaseAddress(input_num, case_num, is_on_case),
                                    !.bounds_errors = bounds_errors]
        /\ UNCHANGED << eeprom, active_cases, active_case_count, pattern_timers >>
        /\ CallRest

\* EEPROM_ReadCase(address, &case_data), while the error counter stays
\* within the limit
ReadCaseWithin(address, limit) ==
    LET errs == EEPROM_ReadCaseErr(address)
    IN  /\ call = NoReturn
        /\ bounds_errors + errs <= limit
        /\ bounds_errors' = bounds_errors + errs
        /\ call' = [NoReturn EXCEPT !.fn = "EEPROM_ReadCase", !.address = address,
                                    !.ret = EEPROM_ReadCase(address).valid,
                                    !.case_data = EEPROM_ReadCase(address),
                                    !.bounds_errors = bounds_errors]
        /\ UNCHANGED << eeprom, active_cases, active_case_count, pattern_timers >>
        /\ CallRest

CallReadCase(address) == ReadCaseWithin(address, MaxBoundsErrors)

\* EEPROM_GetAggregatedMessages(messages, max_messages): reads the list, the
\* timers and the inLINK slots, writes the caller's array only
CallGetAggregatedMessages(max_messages) ==
    /\ call = NoReturn
    /\ call' = [NoReturn EXCEPT
                  !.fn = "EEPROM_GetAggregatedMessages", !.flag = max_messages,
                  !.ret = Len(EEPROM_GetAggregatedMessages(List, pattern_timers, max_messages)),
                  !.bounds_errors = bounds_errors]
    /\ UNCHANGED << eeprom, EngineVars >>
    /\ CallRest

CallHandleInputChange(input_num, new_state) ==
    /\ call = NoReturn
    /\ IF input_num >= TOTAL_INPUTS THEN RejectedCall(input_num)
       ELSE HandleInputChange(input_num, new_state)
    /\ call' = [NoReturn EXCEPT !.fn = "EEPROM_HandleInputChange",
                                !.input_num = input_num, !.flag = new_state,
                                !.bounds_errors = bounds_errors]
    /\ CallRest

CallSetManualCase(input_num, ignition_on, starter_on) ==
    /\ call = NoReturn
    /\ IF input_num >= TOTAL_INPUTS THEN RejectedCall(input_num)
       ELSE SetManualCase(input_num, ignition_on, starter_on)
    /\ call' = [NoReturn EXCEPT !.fn = "EEPROM_SetManualCase",
                                !.input_num = input_num, !.flag = ignition_on,
                                !.ret = IF input_num >= TOTAL_INPUTS THEN 0
                                        ELSE SetManualList(List, input_num,
                                                           ignition_on, starter_on).ret,
                                !.bounds_errors = bounds_errors]
    /\ CallRest

CallClearManualCase(input_num) ==
    /\ call = NoReturn
    /\ IF input_num >= TOTAL_INPUTS THEN RejectedCall(input_num)
       ELSE ClearManualCase(input_num)
    /\ call' = [NoReturn EXCEPT !.fn = "EEPROM_ClearManualCase",
                                !.input_num = input_num,
                                !.bounds_errors = bounds_errors]
    /\ CallRest

CallPatternIsInOnPhase(input_num) ==
    /\ call = NoReturn
    /\ call' = [NoReturn EXCEPT !.fn = "EEPROM_Pattern_IsInOnPhase",
                                !.input_num = input_num,
                                !.ret = Bool(EEPROM_Pattern_IsInOnPhase(input_num)),
                                !.bounds_errors = bounds_errors]
    /\ UNCHANGED << eeprom, EngineVars >>
    /\ CallRest

CallIsTrackIgnitionCase(input_num, case_num) ==
    LET errs == EEPROM_IsTrackIgnitionCaseErr(input_num, case_num)
    IN  /\ call = NoReturn
        /\ bounds_errors + errs <= MaxBoundsErrors
        /\ bounds_errors' = bounds_errors + errs
        /\ call' = [NoReturn EXCEPT !.fn = "EEPROM_IsTrackIgnitionCase",
                                    !.input_num = input_num, !.case_num = case_num,
                                    !.ret = Bool(EEPROM_IsTrackIgnitionCase(input_num, case_num)),
                                    !.bounds_errors = bounds_errors]
        /\ UNCHANGED << eeprom, active_cases, active_case_count, pattern_timers >>
        /\ CallRest

(***************************************************************************)
(* SpecCalls: every entry point called with input numbers in and out of    *)
(* range and with accepted and rejected addresses, between the calls that  *)
(* build the list of IN01 and IN03                                         *)
(***************************************************************************)
CallInputs == {0, 2, 44, 255}

CallCases == {0, 1}

\* two accepted addresses, and an odd one, one below the case regions, the
\* first one beyond the device and the sentinel
CallAddresses == { OnAddr(0, 0), OnAddr(0, 2), 35, 0, EEPROM_SIZE, INVALID_ADDRESS }

NextCalls ==
    \/ \E i \in CallInputs, c \in CallCases, on \in BOOLEAN : CallGetCaseAddress(i, c, on)
    \/ \E a \in CallAddresses : CallReadCase(a)
    \/ \E i \in CallInputs, st \in {0, 1} : CallHandleInputChange(i, st)
    \/ \E i \in CallInputs, st \in {0, 1} : CallSetManualCase(i, 1, st)
    \/ \E i \in CallInputs : CallClearManualCase(i)
    \/ \E i \in CallInputs : CallPatternIsInOnPhase(i)
    \/ \E i \in CallInputs, c \in CallCases : CallIsTrackIgnitionCase(i, c)
    \/ Return

SpecCalls == Init /\ [][NextCalls]_vars

OutOfRange == { i \in CallInputs : i >= TOTAL_INPUTS }

RejectedAddresses == { a \in CallAddresses : ReadCaseRejected(a) }

\* what a rejected call leaves: the list and the timers as they were
EngineUntouched == UNCHANGED << active_cases, active_case_count, pattern_timers >>

Counted == bounds_errors' = bounds_errors + 1

\* the calls that change the list when they are accepted, and the two that
\* resolve and decode, answer a bad argument with their failure value and
\* count it
RejectionsCounted ==
    /\ \A i \in OutOfRange, c \in CallCases, on \in BOOLEAN :
          CallGetCaseAddress(i, c, on) =>
              call'.ret = INVALID_ADDRESS /\ Counted /\ EngineUntouched
    /\ \A a \in RejectedAddresses :
          CallReadCase(a) =>
              call'.ret = 0 /\ call'.case_data.valid = 0 /\ Counted /\ EngineUntouched
    /\ \A i \in OutOfRange, st \in {0, 1} :
          CallHandleInputChange(i, st) => Counted /\ EngineUntouched
    /\ \A i \in OutOfRange, st \in {0, 1} :
          CallSetManualCase(i, 1, st) => call'.ret = 0 /\ Counted /\ EngineUntouched
    /\ \A i \in OutOfRange :
          CallClearManualCase(i) => Counted /\ EngineUntouched

\* C17 (amended): EEPROM_GetCaseAddress, EEPROM_HandleInputChange,
\* EEPROM_SetManualCase and EEPROM_ClearManualCase given an input index of 44
\* or more (0xFF included), and EEPROM_ReadCase given a rejected address,
\* return their failure value, add one to bounds_errors and leave the list
\* and the timers unchanged; EEPROM_Pattern_IsInOnPhase and
\* EEPROM_IsTrackIgnitionCase return 0 for such an index and leave the list
\* and the timers unchanged, but do not count it.
C17_RejectionsCountedButQueries ==
    [][ /\ RejectionsCounted
        /\ \A i \in OutOfRange :
              CallPatternIsInOnPhase(i) =>
                  call'.ret = 0 /\ UNCHANGED bounds_errors /\ EngineUntouched
        /\ \A i \in OutOfRange, c \in CallCases :
              CallIsTrackIgnitionCase(i, c) =>
                  call'.ret = 0 /\ UNCHANGED bounds_errors /\ EngineUntouched ]_vars

\* C17 as stated: all seven entry points return their failure value, count
\* the violation and leave the list and the timers unchanged.
C17_AllRejectionsCounted ==
    [][ /\ RejectionsCounted
        /\ \A i \in OutOfRange :
              CallPatternIsInOnPhase(i) => call'.ret = 0 /\ Counted /\ EngineUntouched
        /\ \A i \in OutOfRange, c \in CallCases :
              CallIsTrackIgnitionCase(i, c) =>
                  call'.ret = 0 /\ Counted /\ EngineUntouched ]_vars

\* C17 witness: EEPROM_HandleInputChange(0xFF, 1) has returned with the list
\* in use, and the counter is one higher than the call found it
C17_Witness ==
    /\ call.fn = "EEPROM_HandleInputChange"
    /\ call.input_num = NO_INPUT
    /\ active_case_count > 0
    /\ bounds_errors = call.bounds_errors + 1

(***************************************************************************)
(* SpecStore: the Case Store functions.  EEPROM_GetCaseAddress is called   *)
(* with every input number up to 45 and 0xFF and every case number up to 8 *)
(* and 0xFF; EEPROM_ReadCase with the addresses the resolver gives for the *)
(* first cases of four inputs and with rejected addresses, on two stores   *)
(***************************************************************************)
ResolveInputs == (0 .. (TOTAL_INPUTS + 1)) \cup {NO_INPUT}

ResolveCases == (0 .. MAX_ON_CASES_PER_INPUT) \cup {255}

DecodeAddresses ==
    { EEPROM_GetCaseAddress(i, c, on) : i \in {0, 1, 2, 31}, c \in 0..3, on \in BOOLEAN }
    \cup {0, 35, EEPROM_SIZE}

InitStore ==
    /\ eeprom \in { Provisioning(17), DecodeProvisioning }
    /\ InitEngine
    /\ pc = "api"

NextStore ==
    \/ \E i \in ResolveInputs, c \in ResolveCases, on \in BOOLEAN :
          CallGetCaseAddress(i, c, on)
    \/ \E a \in DecodeAddresses : CallReadCase(a)
    \/ Return

SpecStore == InitStore /\ [][NextStore]_vars

\* the address the layout gives: region base, per-input offset, 32 bytes per
\* case; the sentinel for an input or a case outside the tables
LayoutAddress(input_num, case_num, is_on) ==
    IF input_num >= TOTAL_INPUTS THEN INVALID_ADDRESS
    ELSE IF is_on = 1
    THEN IF case_num >= input_on_case_count[input_num + 1] THEN INVALID_ADDRESS
         ELSE EEPROM_CASES_START + on_case_offsets[input_num + 1] + 32 * case_num
    ELSE IF case_num >= input_off_case_count[input_num + 1] THEN INVALID_ADDRESS
         ELSE EEPROM_OFF_CASES_START + off_case_offsets[input_num + 1] + 32 * case_num

\* C18: EEPROM_GetCaseAddress returns 0xFFFF iff input_num >= 44 or case_num
\* is not below the input's ON count (is_on_case) or OFF count (otherwise);
\* otherwise it returns base + per-input offset + 32 * case_num (base 0x0022
\* for ON, 0x0D62 for OFF), which is even and below 4096.  The result is
\* given by the three arguments and the tables alone, whatever the store and
\* the counter hold.
C18_ResolveAddress ==
    call.fn = "EEPROM_GetCaseAddress" =>
        /\ call.ret = LayoutAddress(call.input_num, call.case_num, call.flag)
        /\ call.ret # INVALID_ADDRESS => (call.ret % 2 = 0 /\ call.ret < 4096)

\* C18 witness: the second OFF case of input 31, the highest address of the
\* layout (0x0D62 + 608 + 32)
C18_Witness ==
    /\ call.fn = "EEPROM_GetCaseAddress"
    /\ call.input_num = 31
    /\ call.case_num = 1
    /\ call.flag = 0
    /\ call.ret = 4066

\* byte k of the record at the address of the call
RecordByte(k) ==
    IF call.address + k < EEPROM_SIZE THEN eeprom[call.address + k] ELSE 255

RecordBytes(from) == [k \in 1..8 |-> RecordByte(from + k - 1)]

ErasedHeader == \A k \in 0..3 : RecordByte(k) = 255

\* C19: EEPROM_ReadCase on an accepted address whose four header bytes are
\* all 0xFF returns 0 with valid = 0 and does not count a bounds error; for
\* any other header it returns 1 with valid = 1, priority = byte 0 AND 7,
\* pgn = byte 1 * 256 + byte 2, source_addr = byte 3, the ON time the high
\* and the OFF time the low nibble of byte 7, can_be_overridden iff
\* (byte 4 AND 0x0C) = 0x04, and the prerequisite bitmaps and the payload
\* copied from bytes 8..31.
C19_DecodeCase ==
    (call.fn = "EEPROM_ReadCase" /\ ~ReadCaseRejected(call.address)) =>
        IF ErasedHeader
        THEN /\ call.ret = 0
             /\ call.case_data.valid = 0
             /\ bounds_errors = call.bounds_errors
        ELSE /\ call.ret = 1
             /\ call.case_data.valid = 1
             /\ call.case_data.priority = RecordByte(0) % 8
             /\ call.case_data.pgn = RecordByte(1) * 256 + RecordByte(2)
             /\ call.case_data.source_addr = RecordByte(3)
             /\ call.case_data.pattern_on_time = RecordByte(7) \div 16
             /\ call.case_data.pattern_off_time = RecordByte(7) % 16
             /\ call.case_data.can_be_overridden = 1 <=> (RecordByte(4) \div 4) % 4 = 1
             /\ call.case_data.must_be_on = RecordBytes(8)
             /\ call.case_data.must_be_off = RecordBytes(16)
             /\ call.case_data.data = RecordBytes(24)

\* C19 witness: a record whose header has only its first byte 0xFF has been
\* decoded as valid with priority 7
C19_Witness ==
    /\ call.fn = "EEPROM_ReadCase"
    /\ RecordByte(0) = 255
    /\ ~ErasedHeader
    /\ call.case_data.valid = 1
    /\ call.case_data.priority = 7

(***************************************************************************)
(* SpecConditions: the prerequisite bitmaps of IN01 case 0 are drawn; IN01 *)
(* and the inputs the bitmaps name (IN10, IN42) are switched and the       *)
(* ignition is turned on and off                                           *)
(***************************************************************************)
PrereqMaps ==
    { PrereqMap(0, 0, 0), PrereqMap(2, 0, 0), PrereqMap(0, 2, 255), PrereqMap(0, 16, 0),
      PrereqMap(0, 32, 0), PrereqMap(2, 48, 255), PrereqMap(0, 0, 255) }

ConditionInputs == {0, 9, 41}

InitConditions ==
    /\ eeprom \in { ConditionProvisioning(on, off) : on \in PrereqMaps, off \in PrereqMaps }
    /\ InitEngine
    /\ pc = "api"

NextConditions ==
    \/ \E i \in ConditionInputs, s \in {0, 1} :
          DispatchInput(i, s) /\ UNCHANGED << MainVars, HistVars >>
    \/ \E f \in {0, 1} :
          SetIgnition(f) /\ UNCHANGED << MainVars, HistVars >>

SpecConditions == InitConditions /\ [][NextConditions]_vars

\* bit (i mod 8) of byte (i div 8) of a bitmap
MapBit(map, i) == (map[(i \div 8) + 1] \div Pow2(i % 8)) % 2 = 1

IgnitionActive == ignition_flag = 1 \/ can_ignition_state = 1

ConditionsMet(must_be_on, must_be_off) ==
    /\ \A i \in 0..43 :
         /\ MapBit(must_be_on, i) => input_states[i] = 1
         /\ MapBit(must_be_off, i) => input_states[i] = 0
    /\ MapBit(must_be_on, 45) => IgnitionActive
    /\ MapBit(must_be_off, 45) => ~IgnitionActive

\* the bitmap with bit 0x10 of byte 5 and the bytes 6 and 7 cleared
WithoutReserved(map) ==
    [map EXCEPT ![6] = IF MapBit(map, 44) THEN @ - 16 ELSE @, ![7] = 0, ![8] = 0]

\* the merge pass over some entries, the claimed-bit masks taken from the list
MergePass(entries) ==
    MergeCases(entries, pattern_timers,
               PatternMasks(ListSeq(List), pattern_timers, << >>),
               << >>, MAX_UNIQUE_MESSAGES)

WithoutEntry(entries, n) ==
    [j \in 1 .. (Len(entries) - 1) |-> IF j < n THEN entries[j] ELSE entries[j + 1]]

C20_WitnessMet ==
    /\ active_case_count = 2
    /\ active_cases[0].case_data.must_be_on = PrereqMap(2, 48, 255)
    /\ CheckInputConditions(active_cases[0].case_data.must_be_on,
                            active_cases[0].case_data.must_be_off)
    /\ MergePass(ListSeq(List))[1].data = Byte0(33)

(***************************************************************************)
(* EEPROM_RemoveMarkedCases, under Spec                                    *)
(***************************************************************************)
FlaggedSlots == { k \in 0 .. (active_case_count - 1) :
                    active_cases[k].needs_removal_after_send # 0 }

\* the entries of seq from position n on that are not flagged, in order
RECURSIVE UnflaggedFrom(_, _)
UnflaggedFrom(seq, n) ==
    IF n > Len(seq) THEN << >>
    ELSE IF seq[n].needs_removal_after_send # 0 THEN UnflaggedFrom(seq, n + 1)
    ELSE << seq[n] >> \o UnflaggedFrom(seq, n + 1)

InitTracked ==
    /\ eeprom = TrackedProvisioning
    /\ InitEngine
    /\ pc = "api"

NextTracked ==
    \/ \E s \in {0, 1} : DispatchInput(2, s) /\ UNCHANGED << MainVars, HistVars >>
    \/ \E f \in {0, 1} : SetIgnition(f) /\ UNCHANGED << MainVars, HistVars >>
    \/ Tick /\ Rest
    \/ RemoveMarkedCases /\ Rest

SpecTracked == InitTracked /\ [][NextTracked]_vars

\* the whole payload of the entry is in the bucket of its identifier
FullPayloadInBucket(e) ==
    \E j \in 1 .. Len(Aggregated) :
        /\ Aggregated[j].pgn = e.case_data.pgn
        /\ Aggregated[j].source_addr = e.case_data.source_addr
        /\ Or8(Aggregated[j].data, e.case_data.data) = Aggregated[j].data

\* C25: while ignition is on, an ignition-tracked entry gives its full
\* payload to the aggregation whatever the pattern timer of its owning
\* input, also while that timer is armed and in its OFF phase.
C25_TrackedOverridesPattern ==
    ignition_flag = 1 =>
        \A k \in 0 .. (active_case_count - 1) :
            (/\ IsTrackedEntry(active_cases[k])
             /\ active_cases[k].case_data.valid = 1
             /\ PrerequisitesHold(active_cases[k]))
            => FullPayloadInBucket(active_cases[k])

\* C25 witness: ignition is on, the tracked entry of IN03 is listed, and
\* IN03's pattern timer is armed and in its OFF phase
C25_Witness ==
    /\ ignition_flag = 1
    /\ InOffPhase(2)
    /\ \E k \in 0 .. (active_case_count - 1) :
          /\ IsTrackedEntry(active_cases[k])
          /\ active_cases[k].input_num = 2
          /\ active_cases[k].case_data.valid = 1

(***************************************************************************)
(* SpecManualTracked: the manual case of IN01 is set and cleared while the *)
(* ignition-tracked cases are updated, IN03 is switched, the bank ticks    *)
(* and the transmit cycle prunes; the configuration byte of IN01 case 0 is *)
(* 0x10 (one-button start) or 0x50 (one-button start and ignition-tracked) *)
(***************************************************************************)
InitManualTracked ==
    /\ eeprom \in { ManualTrackedProvisioning(config) : config \in {16, 80} }
    /\ InitEngine
    /\ pc = "api"

NextManualTracked ==
    \/ \E a \in {0, 1}, b \in {0, 1} : SetManualCase(0, a, b) /\ Rest
    \/ ClearManualCase(0) /\ Rest
    \/ \E f \in {0, 1} : UpdateIgnitionTrackedCases(f) /\ Rest
    \/ \E s \in {0, 1} : HandleInputChange(2, s) /\ Rest
    \/ Tick /\ Rest
    \/ RemoveMarkedCases /\ Rest

SpecManualTracked == InitManualTracked /\ [][NextManualTracked]_vars

\* a call other than EEPROM_SetManualCase(0, ..) and EEPROM_ClearManualCase(0)
OtherThanManualStep ==
    \/ \E f \in {0, 1} : UpdateIgnitionTrackedCases(f)
    \/ \E s \in {0, 1} : HandleInputChange(2, s)
    \/ Tick
    \/ RemoveMarkedCases

\* every persistent entry of the input is in the list after the step
ManualEntryKept(input_num) ==
    \A k \in PersistentEntries(List, input_num) :
        \E n \in 0 .. (active_case_count' - 1) : active_cases'[n] = active_cases[k]

\* C26: the entry that a successful EEPROM_SetManualCase(input, ..) made
\* stays in the active list, persistent and unchanged, across every tick,
\* prune, EEPROM_UpdateIgnitionTrackedCases call and transition of another
\* input, until EEPROM_ClearManualCase(input) or another
\* EEPROM_SetManualCase(input, ..).
C26_ManualEntryStays ==
    [][OtherThanManualStep => ManualEntryKept(0)]_vars

\* the same where the first ON case of the input is not ignition-tracked
C26_ManualEntryStaysUnlessTracked ==
    [][(OtherThanManualStep /\ ~EEPROM_IsTrackIgnitionCase(0, 0)) => ManualEntryKept(0)]_vars

\* C26 witness: the manual entry of IN01 with the ignition and the starter
\* bit is listed, and the store marks IN01 case 0 ignition-tracked as well
C26_Witness ==
    /\ EEPROM_IsTrackIgnitionCase(0, 0)
    /\ EEPROM_IsOneButtonStartInput(0)
    /\ \E k \in PersistentEntries(List, 0) :
          /\ active_cases[k].case_num = 0
          /\ active_cases[k].case_data.data = Byte0(48)

(***************************************************************************)
(* SpecConfig: frames arrive from the bus on a provisioned cell and        *)
(* CAN_Config_ProcessMessage handles each of them                          *)
(***************************************************************************)
\* requests handled in a behaviour
MaxRequests == 2

\* 0x18FF2080 (read request), 0x18FF1080 (write request), 0x18FF0080
\* (heartbeat), 0x18FF2081 (read PGN from source 0x81), 0x18FF2180 (PGN
\* 0xFF21 from source 0x80)
ConfigIds == {419373184, 419369088, 419364992, 419373185, 419373440}

\* byte addresses asked for: the first byte, READ_REQ_PGN_B, 0x01FF, the
\* last byte of the store, the first beyond it, and 0xFFFF
ConfigAddresses == {0, 14, 511, 4095, 4096, 65535}

\* 0x77 and 0x55
GuardBytes == {119, 85}

\* 0x12 and 0x10; 0x10 written to READ_REQ_PGN_B makes the read-request
\* PGN that of the write requests
ConfigValues == {18, 16}

ConfigMessage(id, guard, addr, value, valid) ==
    [ id |-> id, valid |-> valid,
      data |-> << guard, addr % 256, addr \div 256, value, 255, 255, 255, 255 >> ]

ConfigMessages ==
    { ConfigMessage(id, guard, addr, value, 1) :
        id \in ConfigIds, guard \in GuardBytes, addr \in ConfigAddresses,
        value \in ConfigValues }
    \cup { ConfigMessage(419373184, 119, 0, 18, 0) }

ConfigRest ==
    UNCHANGED << EngineVars, input_states, ignition_flag, can_ignition_state,
                 one_button_states, inlink_messages, MainVars, HistVars >>

\* what CAN_Config_ProcessMessage leaves when it handles nothing
NotHandled ==
    [ store |-> eeprom, cc |-> can_config, ec |-> eeprom_config, ei |-> eeprom_init,
      response |-> config_response ]

\* CAN_Config_ProcessMessage
CAN_Config_ProcessMessage(msg) ==
    LET is_read == msg.valid # 0 /\ CAN_Config_IsReadRequest(can_config, msg.id) = 1
        is_write == msg.valid # 0 /\ ~is_read
                    /\ CAN_Config_IsWriteRequest(can_config, msg.id) = 1
        after == IF is_read
                 THEN CAN_Config_HandleReadRequest(eeprom, can_config, eeprom_config,
                                                   eeprom_init, msg)
                 ELSE IF is_write
                 THEN CAN_Config_HandleWriteRequest(eeprom, can_config, eeprom_config,
                                                    eeprom_init, msg)
                 ELSE NotHandled
    IN  /\ can_config.read_request_count + can_config.write_request_count < MaxRequests
        /\ eeprom' = after.store
        /\ can_config' = after.cc
        /\ eeprom_config' = after.ec
        /\ eeprom_init' = after.ei
        /\ config_response' = after.response
        /\ config_request' = [ id |-> msg.id, data |-> msg.data, valid |-> msg.valid,
                               handled |-> Bool(is_read \/ is_write) ]
        /\ ConfigRest

InitConfig ==
    /\ eeprom = ConfigProvisioning
    /\ InitEngine
    /\ pc = "api"

NextConfig == \E msg \in ConfigMessages : CAN_Config_ProcessMessage(msg)

SpecConfig == InitConfig /\ [][NextConfig]_vars

\* C27: a frame is recognised as a read request only when its PGN and its
\* source address both equal the configured read-request PGN and source
\* address, and as a write request only when both equal the configured
\* write-request ones; a frame with the read-request PGN from source 0x81
\* (0x18FF2081) is not a read request, and the heartbeat identifier
\* (0x18FF0080) is neither.
C27_RequestNeedsPgnAndSource ==
    \A id \in ConfigIds :
        /\ CAN_Config_IsReadRequest(can_config, id) = 1
              => IsRequestFrom(id, can_config.cached_read_pgn, can_config.cached_read_sa) = 1
        /\ CAN_Config_IsWriteRequest(can_config, id) = 1
              => IsRequestFrom(id, can_config.cached_write_pgn, can_config.cached_write_sa) = 1

\* the part of it that is about the PGN: a frame is a read or a write
\* request exactly when its PGN is the configured one, and the heartbeat
\* identifier is neither
C27_RequestNeedsPgn ==
    /\ \A id \in ConfigIds :
          /\ CAN_Config_IsReadRequest(can_config, id) = 1
                <=> CAN_Config_ExtractPGN(id) = can_config.cached_read_pgn
          /\ CAN_Config_IsWriteRequest(can_config, id) = 1
                <=> CAN_Config_ExtractPGN(id) = can_config.cached_write_pgn
    /\ CAN_Config_IsReadRequest(can_config, 419364992) = 0
    /\ CAN_Config_IsWriteRequest(can_config, 419364992) = 0

\* C27 witness: the frame 0x18FF2081 has been given to
\* CAN_Config_ProcessMessage while read requests were configured as
\* (0xFF20, 0x80), and was handled as a request
C27_Witness ==
    /\ config_request.id = 419373185
    /\ config_request.valid = 1
    /\ config_request.handled = 1
    /\ can_config.cached_read_pgn = 65312
    /\ can_config.cached_read_sa = 128
    /\ can_config.read_request_count > 0

\* the step is a call of CAN_Config_ProcessMessage that handled its frame,
\* config_request', as a read or a write request: every handler counts it
RequestStep ==
    can_config'.read_request_count + can_config'.write_request_count
        # can_config.read_request_count + can_config.write_request_count

\* the status byte of the response
ResponseStatus(response) == response.data[6]

\* C28: a read or write request whose data byte 0 is not 0x77 adds one to
\* bad_guard_count, is answered with status 0xE1 and accesses the store
\* neither for reading nor for writing: the store, the cached configuration
\* and the access counters of the store are as before.  A request whose
\* data byte 0 is 0x77 leaves bad_guard_count as it is.
C28_BadGuardRejected ==
    [][RequestStep =>
            IF config_request'.data[1] # CAN_CONFIG_GUARD_BYTE
            THEN /\ can_config'.bad_guard_count = can_config.bad_guard_count + 1
                 /\ ResponseStatus(config_response') = CAN_CONFIG_STATUS_BAD_GUARD
                 /\ eeprom' = eeprom
                 /\ CachedConfiguration(can_config') = CachedConfiguration(can_config)
                 /\ eeprom_config' = eeprom_config
                 /\ eeprom_init' = eeprom_init
            ELSE can_config'.bad_guard_count = can_config.bad_guard_count]_vars

\* C28 witness: a write request with guard byte 0x55 has been handled after
\* another request with a bad guard byte, and answered with status 0xE1
C28_Witness ==
    /\ config_request.handled = 1
    /\ CAN_Config_IsWriteRequest(can_config, config_request.id) = 1
    /\ can_config.write_request_count > 0
    /\ config_request.data[1] = 85
    /\ can_config.bad_guard_count = 2
    /\ ResponseStatus(config_response) = CAN_CONFIG_STATUS_BAD_GUARD

\* the step handled config_request' as a write request, as a read request
WriteRequestStep == can_config'.write_request_count # can_config.write_request_count

ReadRequestStep == can_config'.read_request_count # can_config.read_request_count

\* the request of the step carries the guard byte
GuardedRequestStep ==
    /\ RequestStep
    /\ config_request'.data[1] = CAN_CONFIG_GUARD_BYTE

\* the request of the step is refused for its address
RejectedForAddress ==
    /\ can_config'.addr_range_error_count = can_config.addr_range_error_count + 1
    /\ ResponseStatus(config_response') = CAN_CONFIG_STATUS_ADDR_OUT_OF_RANGE
    /\ eeprom' = eeprom

\* C29: a write request to byte address 0x01FF is refused: it adds one to
\* addr_range_error_count, is answered with status 0xE6 and leaves the
\* store unchanged; a read request to address 0xFFFF is refused the same
\* way; a request to address 0 leaves addr_range_error_count as it is.
C29_WriteRangeNarrower ==
    [][GuardedRequestStep =>
         /\ (WriteRequestStep /\ RequestAddress(config_request') = 511)
               => RejectedForAddress
         /\ (ReadRequestStep /\ RequestAddress(config_request') = 65535)
               => RejectedForAddress
         /\ RequestAddress(config_request') = 0
               => can_config'.addr_range_error_count = can_config.addr_range_error_count]_vars

\* what the handlers do: a read or a write request is refused exactly when
\* its address is beyond the last byte of the store, 0x0FFF
C29_RangeIsWholeStore ==
    [][GuardedRequestStep =>
         IF RequestAddress(config_request') > 4095
         THEN RejectedForAddress
         ELSE /\ can_config'.addr_range_error_count = can_config.addr_range_error_count
              /\ ResponseStatus(config_response') = CAN_CONFIG_STATUS_SUCCESS]_vars

\* C29 witness: a write request with the guard byte and the value 0x12 for
\* byte address 0x01FF has been handled
C29_Witness ==
    /\ config_request.handled = 1
    /\ config_request.id = 419369088
    /\ can_config.cached_write_pgn = 65296
    /\ can_config.write_request_count > 0
    /\ config_request.data[1] = CAN_CONFIG_GUARD_BYTE
    /\ config_request.data[4] = 18
    /\ RequestAddress(config_request) = 511
    /\ config_response.data[4] = 255
    /\ config_response.data[5] = 1

(***************************************************************************)
(* SpecBytes: EEPROM_Config_WriteByte and EEPROM_Config_ReadByte are       *)
(* called on a provisioned store, one call at a time                       *)
(***************************************************************************)
\* calls of EEPROM_Config_WriteByte and of EEPROM_Config_ReadByte in a behaviour
MaxByteWrites == 3

MaxByteReads == 1

\* the two bytes of the first word, of the second word and of the last word
ByteAddresses == {0, 1, 2, 3, 4094, 4095}

\* 0xAA and 0x55
ByteValues == {170, 85}

ByteRest ==
    UNCHANGED << EngineVars, input_states, ignition_flag, can_ignition_state,
                 one_button_states, inlink_messages, can_config, eeprom_init, config_response,
                 config_request, MainVars, cycle, ticks >>

CallConfigWriteByte(byte_addr, value) ==
    LET written == EEPROM_Config_WriteByte(eeprom, eeprom_config, byte_addr, value)
    IN  /\ call = NoReturn
        /\ eeprom_config.byte_write_count < MaxByteWrites
        /\ eeprom' = written.store
        /\ eeprom_config' = written.statics
        /\ call' = [NoReturn EXCEPT !.fn = "EEPROM_Config_WriteByte",
                                    !.address = byte_addr, !.flag = value,
                                    !.ret = written.result]
        /\ ByteRest

CallConfigReadByte(byte_addr) ==
    /\ call = NoReturn
    /\ eeprom_config.byte_read_count < ReloadReads + MaxByteReads
    /\ eeprom_config' = BytesRead(eeprom_config, 1)
    /\ call' = [NoReturn EXCEPT !.fn = "EEPROM_Config_ReadByte",
                                !.address = byte_addr,
                                !.ret = EEPROM_Config_ReadByte(eeprom, byte_addr)]
    /\ UNCHANGED eeprom
    /\ ByteRest

InitBytes ==
    /\ eeprom = ConfigProvisioning
    /\ InitEngine
    /\ pc = "api"

NextBytes ==
    \/ \E a \in ByteAddresses, v \in ByteValues : CallConfigWriteByte(a, v)
    \/ \E a \in ByteAddresses : CallConfigReadByte(a)
    \/ Return

SpecBytes == InitBytes /\ [][NextBytes]_vars

\* the step is a call of EEPROM_Config_WriteByte(call'.address, call'.flag)
WriteByteStep ==
    /\ call = NoReturn
    /\ call'.fn = "EEPROM_Config_WriteByte"

\* C30: for a byte address a of the store, even or odd,
\* EEPROM_Config_WriteByte(a, v) succeeds, EEPROM_Config_ReadByte(a) returns
\* v after it, and EEPROM_Config_ReadByte of the other byte of the word
\* (a XOR 1) and of every other byte of the store returns what it returned
\* before the write.
C30_WriteByteKeepsOthers ==
    [][WriteByteStep =>
         /\ call'.ret = 1
         /\ EEPROM_Config_ReadByte(eeprom', call'.address) = call'.flag
         /\ \A b \in 0 .. (EEPROM_SIZE - 1) :
               b # call'.address
                 => EEPROM_Config_ReadByte(eeprom', b) = EEPROM_Config_ReadByte(eeprom, b)]_vars

\* a read after the write returns the byte of the store
C30_ReadByteReturnsByte ==
    call.fn = "EEPROM_Config_ReadByte" => call.ret = eeprom[call.address]

\* C30 witness: 0x55 has just been written to the odd address 1 after 0xAA
\* was written to address 0, the other byte of the word
C30_Witness ==
    /\ call.fn = "EEPROM_Config_WriteByte"
    /\ call.address = 1
    /\ call.flag = 85
    /\ call.ret = 1
    /\ eeprom_config.byte_write_count > 1
    /\ eeprom[0] = 170
    /\ eeprom[1] = 85

(***************************************************************************)
(* SpecFirstCase: IN01 and IN03 are switched, the bank ticks and the       *)
(* transmit cycle prunes, on stores whose IN03 case 0 is erased or carries *)
(* the pattern byte 0x00, 0x01, 0x10 or 0x21, and whose IN03 case 1        *)
(* carries 0x00 or 0x32                                                    *)
(***************************************************************************)
InitFirstCase ==
    /\ eeprom \in { FirstCaseProvisioning(blank, first, second) :
                      blank \in {0, 1}, first \in {0, 1, 16, 33}, second \in {0, 50} }
    /\ InitEngine
    /\ pc = "api"

NextFirstCase ==
    \/ \E i \in {0, 2}, st \in {0, 1} : HandleInputChange(i, st) /\ Rest
    \/ Tick /\ Rest
    \/ RemoveMarkedCases /\ Rest

SpecFirstCase == InitFirstCase /\ [][NextFirstCase]_vars

\* the slots of the persistent ON entries that input_num owns in a list
LoadedOnSlots(cases, count, input_num) ==
    { k \in 0 .. (count - 1) : /\ cases[k].input_num = input_num
                               /\ cases[k].is_on_case = 1
                               /\ cases[k].needs_removal_after_send = 0 }

\* the timer is armed in its ON phase with the nibbles of the record
ArmedFrom(t, case_data) ==
    /\ t.has_pattern = 1
    /\ t.state = PATTERN_STATE_ON_PHASE
    /\ t.on_time = case_data.pattern_on_time
    /\ t.off_time = case_data.pattern_off_time
    /\ t.timer = case_data.pattern_on_time

TimerInactive(t) ==
    /\ t.has_pattern = 0
    /\ t.state = PATTERN_STATE_INACTIVE
    /\ t.timer = 0

\* after the step, which is EEPROM_HandleInputChange(input_num, 1), the
\* timer follows the loaded entry of the lowest case index
ArmedByFirstLoaded(input_num) ==
    LET slots == LoadedOnSlots(active_cases', active_case_count', input_num)
        first == CHOOSE k \in slots :
                    \A j \in slots : active_cases'[k].case_num <= active_cases'[j].case_num
    IN  IF slots # {} /\ (\/ active_cases'[first].case_data.pattern_on_time # 0
                          \/ active_cases'[first].case_data.pattern_off_time # 0)
        THEN ArmedFrom(pattern_timers'[input_num], active_cases'[first].case_data)
        ELSE TimerInactive(pattern_timers'[input_num])

\* the same with case index 0 in the place of the lowest index loaded
ArmedByCaseZero(input_num) ==
    LET slots == { k \in LoadedOnSlots(active_cases', active_case_count', input_num) :
                     active_cases'[k].case_num = 0 }
        first == CHOOSE k \in slots : TRUE
    IN  IF slots # {} /\ (\/ active_cases'[first].case_data.pattern_on_time # 0
                          \/ active_cases'[first].case_data.pattern_off_time # 0)
        THEN ArmedFrom(pattern_timers'[input_num], active_cases'[first].case_data)
        ELSE TimerInactive(pattern_timers'[input_num])

\* C31: after EEPROM_HandleInputChange(i, 1) the timer of i is armed (has
\* pattern, ON phase, countdown and durations from the record) if and only
\* if the loaded ON case of the lowest case index, the first that decoded
\* valid, has a non-zero pattern nibble; otherwise it is inactive with
\* countdown 0.  Cases that do not decode do not count as the first.
C31_ArmedByFirstLoaded ==
    [][\A i \in {0, 2} : HandleInputChange(i, 1) => ArmedByFirstLoaded(i)]_vars

\* what the activation does: only case index 0 arms the timer
C31_ArmedByCaseZero ==
    [][\A i \in {0, 2} : HandleInputChange(i, 1) => ArmedByCaseZero(i)]_vars

\* C31 witness: IN03 has been activated on a store whose case 0 of IN03 is
\* erased: case 1, with the pattern byte 0x32, is the first entry loaded
C31_Witness ==
    /\ FirstOnCase(2).valid = 0
    /\ \E k \in LoadedOnSlots(active_cases, active_case_count, 2) :
          /\ active_cases[k].case_num = 1
          /\ active_cases[k].case_data.pattern_on_time = 3
          /\ active_cases[k].case_data.pattern_off_time = 2
    /\ \A k \in LoadedOnSlots(active_cases, active_case_count, 2) :
          active_cases[k].case_num # 0

(***************************************************************************)
(* SpecFlash: IN03 is switched on and stays on, IN01 is switched on and    *)
(* off, and the timer interrupt goes on ticking the bank.  The nibbles of  *)
(* IN03's pattern byte are 0, 1, 2 or 15 each.  ticks counts the Tick      *)
(* calls that the timer of IN03 has been through in its present phase.     *)
(***************************************************************************)
FlashNibbles == {0, 1, 2, 15}

InitFlash ==
    /\ eeprom \in { Provisioning(16 * on + off) : on \in FlashNibbles, off \in FlashNibbles }
    /\ InitEngine
    /\ pc = "api"

FlashActivate ==
    /\ DispatchInput(2, 1)
    /\ ticks' = 0
    /\ UNCHANGED << MainVars, cycle, call >>

FlashSwitchIN01(new_state) ==
    /\ DispatchInput(0, new_state)
    /\ UNCHANGED << MainVars, HistVars >>

FlashTick ==
    /\ Tick
    /\ ticks' = IF pattern_timers'[2].state = PATTERN_STATE_INACTIVE THEN 0
                ELSE IF pattern_timers'[2].state = pattern_timers[2].state THEN ticks + 1
                ELSE 1
    /\ UNCHANGED << InputVars, MainVars, cycle, call >>

NextFlash ==
    \/ FlashActivate
    \/ \E st \in {0, 1} : FlashSwitchIN01(st)
    \/ FlashTick

\* the timer interrupt recurs for ever
SpecFlash == InitFlash /\ [][NextFlash]_vars /\ WF_vars(FlashTick)

FlashInOnPhase == pattern_timers[2].state = PATTERN_STATE_ON_PHASE

FlashInOffPhase == pattern_timers[2].state = PATTERN_STATE_OFF_PHASE

\* Tick leaves every inactive timer as it is
InactiveUntouched ==
    \A i \in DOMAIN pattern_timers :
        pattern_timers[i].state = PATTERN_STATE_INACTIVE
            => pattern_timers'[i] = pattern_timers[i]

\* C32: an armed timer that is not disarmed enters its ON phase and its OFF
\* phase again and again under the recurring Tick, no phase lasts more than
\* 16 ticks in a row, for every nibble pair, also with a zero on or off
\* nibble; an inactive timer is never changed by Tick.
C32_PatternRepeats ==
    /\ PatternArmed ~> FlashInOnPhase
    /\ PatternArmed ~> FlashInOffPhase
    /\ [](ticks <= 16)
    /\ [][Tick => InactiveUntouched]_vars

\* C32 witness: with the nibble pair (0, 15) the timer is in its OFF phase
\* for the fifteenth tick
C32_Witness ==
    /\ PatternArmed
    /\ d_on = 0
    /\ d_off = 15
    /\ FlashInOffPhase
    /\ ticks = 15

(***************************************************************************)
(* SpecLegacy: IN01 (an OFF case), IN03 and IN23 are switched and the      *)
(* transmit cycle prunes; call keeps the last engine call made             *)
(***************************************************************************)
LegacyInputs == {0, 2, 22}

LegacyDispatch(input_num, new_state) ==
    /\ DispatchInput(input_num, new_state)
    /\ call' = [NoReturn EXCEPT !.fn = "EEPROM_HandleInputChange",
                                !.input_num = input_num, !.flag = new_state]
    /\ UNCHANGED << MainVars, cycle, ticks >>

LegacyPrune ==
    /\ RemoveMarkedCases
    /\ call' = [NoReturn EXCEPT !.fn = "EEPROM_RemoveMarkedCases"]
    /\ UNCHANGED << InputVars, MainVars, cycle, ticks >>

NextLegacy ==
    \/ \E i \in LegacyInputs, st \in {0, 1} : LegacyDispatch(i, st)
    \/ LegacyPrune

SpecLegacy == Init /\ [][NextLegacy]_vars

\* the step activates the input
ActivationStep(input_num) ==
    /\ input_states[input_num] = 0
    /\ input_states'[input_num] = 1

\* C33: the list holds only entries that an insert placed and nothing has
\* removed since: when no entry of IN23 is in the list, none is in it after
\* a step that is not the activation of IN23, whatever the other inputs do
\* (the specification makes no manual and no ignition-tracked call).
C33_NoEntryBeforeActivation ==
    [][(~OwnsEntry(22) /\ ~ActivationStep(22)) => ~OwnsEntry(22)']_vars

\* C33 witness: IN23 is off and its clearing entry was pruned; the
\* deactivation of IN01, the last call, has put IN01's clearing entry in
\* slot 0 and taken the count over slot 1, where IN23's entry still lay
C33_Witness ==
    /\ call.fn = "EEPROM_HandleInputChange"
    /\ call.input_num = 0
    /\ call.flag = 0
    /\ input_states[22] = 0
    /\ active_case_count = 2
    /\ active_cases[0].input_num = 0
    /\ IsClearingEntry(active_cases[0])
    /\ active_cases[1].input_num = 22

(***************************************************************************)
(* SpecLayout: EEPROM_GetCaseAddress is called for every input and case    *)
(* index of the tables and EEPROM_ReadCase for every address it accepts,   *)
(* on a store with the standard records and on a store whose last two OFF  *)
(* records are written                                                     *)
(***************************************************************************)
\* bounds errors counted in a behaviour of SpecLayout
MaxLayoutErrors == 2

LayoutTriples ==
    { t \in (0 .. (TOTAL_INPUTS - 1)) \X (0 .. MAX_ON_CASES_PER_INPUT) \X BOOLEAN : TRUE }

\* the triples that EEPROM_GetCaseAddress accepts
AcceptedTriples ==
    { t \in LayoutTriples : EEPROM_GetCaseAddress(t[1], t[2], t[3]) # INVALID_ADDRESS }

AcceptedAddresses == { EEPROM_GetCaseAddress(t[1], t[2], t[3]) : t \in AcceptedTriples }

InitLayout ==
    /\ eeprom \in { Provisioning(17), LayoutProvisioning }
    /\ InitEngine
    /\ pc = "api"

NextLayout ==
    \/ \E t \in LayoutTriples : CallGetCaseAddress(t[1], t[2], t[3])
    \/ \E a \in AcceptedAddresses : ReadCaseWithin(a, MaxLayoutErrors)
    \/ Return

SpecLayout == InitLayout /\ [][NextLayout]_vars

\* the 32 bytes of the record at the address
RecordSpan(address) == address .. (address + CASE_SIZE - 1)

\* the record lies in the region of its kind
InOwnRegion(address, is_on) ==
    IF is_on = 1
    THEN /\ address >= EEPROM_CASES_START
         /\ address + CASE_SIZE - 1 < EEPROM_OFF_CASES_START
    ELSE address >= EEPROM_OFF_CASES_START

\* no record accepted for other arguments shares a byte with the record
OverlapsNone(input_num, case_num, is_on) ==
    \A t \in AcceptedTriples :
        << t[1], t[2], Bool(t[3]) >> # << input_num, case_num, is_on >>
          => RecordSpan(EEPROM_GetCaseAddress(t[1], t[2], t[3]))
               \cap RecordSpan(EEPROM_GetCaseAddress(input_num, case_num, is_on = 1)) = {}

AcceptedCall == call.fn = "EEPROM_GetCaseAddress" /\ call.ret # INVALID_ADDRESS

AcceptedRead == call.fn = "EEPROM_ReadCase" /\ call.address \in AcceptedAddresses

\* C34: the record of every accepted (input, case index, is_on) lies within
\* the 4096 bytes of the store and in its own region (ON below 0x0D62, OFF
\* at or above), no two accepted records overlap, and EEPROM_ReadCase of an
\* accepted record reads no byte at 4096 or above and counts no bounds
\* error.
C34_RecordsInsideStore ==
    /\ AcceptedCall =>
          /\ call.ret + CASE_SIZE - 1 < EEPROM_SIZE
          /\ InOwnRegion(call.ret, call.flag)
          /\ OverlapsNone(call.input_num, call.case_num, call.flag)
    /\ AcceptedRead => bounds_errors = call.bounds_errors

\* what the layout gives: regions and disjointness as claimed, and every
\* record within the store but the second OFF case of IN32, whose last two
\* bytes (0x1000, 0x1001) are read as 0xFF with a bounds error each
C34_RecordsInsideRegions ==
    /\ AcceptedCall =>
          /\ InOwnRegion(call.ret, call.flag)
          /\ OverlapsNone(call.input_num, call.case_num, call.flag)
          /\ call.ret + CASE_SIZE - 1 >= EEPROM_SIZE
                <=> << call.input_num, call.case_num, call.flag >> = << 31, 1, 0 >>
    /\ AcceptedRead =>
          IF call.address = OffAddr(31, 1) /\ call.ret = 1
          THEN /\ bounds_errors = call.bounds_errors + 2
               /\ call.case_data.data[7] = 255
               /\ call.case_data.data[8] = 255
          ELSE bounds_errors = call.bounds_errors

\* C34 witness: the second OFF case of IN32, accepted at 0x0FE2, has been
\* decoded from a store that holds it
C34_Witness ==
    /\ call.fn = "EEPROM_ReadCase"
    /\ call.address = EEPROM_GetCaseAddress(31, 1, FALSE)
    /\ call.address = 4066
    /\ call.ret = 1
    /\ call.case_data.data[6] = 6
    /\ bounds_errors > call.bounds_errors

(***************************************************************************)
(* SpecClearing: IN01 is set and cleared by the one-button start, IN01 and *)
(* IN03 are switched, the ignition is turned on and off and the transmit   *)
(* cycle prunes, on a store whose cases carry prerequisites                *)
(***************************************************************************)
InitClearing ==
    /\ eeprom = ClearingProvisioning
    /\ InitEngine
    /\ pc = "api"

ClearingManualRest ==
    UNCHANGED << input_states, ignition_flag, can_ignition_state, one_button_states, inlink_messages,
                 ConfigVars, MainVars, HistVars >>

NextClearing ==
    \/ \E a \in {0, 1}, b \in {0, 1} : SetManualCase(0, a, b) /\ ClearingManualRest
    \/ ClearManualCase(0) /\ ClearingManualRest
    \/ \E i \in {0, 2}, st \in {0, 1} :
          DispatchInput(i, st) /\ UNCHANGED << MainVars, HistVars >>
    \/ \E f \in {0, 1} : SetIgnition(f) /\ UNCHANGED << MainVars, HistVars >>
    \/ RemoveMarkedCases /\ Rest

SpecClearing == InitClearing /\ [][NextClearing]_vars

\* a one-shot entry with an all-zero payload
AllZeroClearing(e) ==
    /\ IsClearingEntry(e)
    /\ e.case_data.data = Zero8

EmptyBitmaps(e) ==
    /\ e.case_data.must_be_on = Zero8
    /\ e.case_data.must_be_off = Zero8

\* the entry is evaluated as met and its identifier has a bucket
ReachesBucket(e) ==
    /\ PrerequisitesHold(e)
    /\ \E m \in 1 .. Len(Aggregated) : BucketId(Aggregated[m]) = Id(e)

\* the entry is what EEPROM_ClearManualCase makes of the first ON case of
\* its input: the record with its bitmaps, the payload zeroed
ClearedFromFirstCase(e) ==
    /\ e.input_num < TOTAL_INPUTS
    /\ e.case_num = 0
    /\ EEPROM_IsOneButtonStartInput(e.input_num)
    /\ e.case_data = [FirstOnCase(e.input_num) EXCEPT !.data = Zero8]

\* C36: every all-zero clearing entry, whichever call inserted it, has empty
\* must_be_on and must_be_off bitmaps, so it is evaluated as met and its
\* identifier has a bucket in the aggregation, whatever the input and
\* ignition states are.
C36_ClearingEntriesPass ==
    \A k \in ActiveSlots :
        AllZeroClearing(active_cases[k])
          => (EmptyBitmaps(active_cases[k]) /\ ReachesBucket(active_cases[k]))

\* what holds: the clearing entries have empty bitmaps and reach their
\* bucket, but for the entry of EEPROM_ClearManualCase, which keeps the
\* bitmaps of the first ON case of its input
C36_ClearingEntriesPassButManual ==
    \A k \in ActiveSlots :
        AllZeroClearing(active_cases[k])
          => \/ EmptyBitmaps(active_cases[k]) /\ ReachesBucket(active_cases[k])
             \/ ClearedFromFirstCase(active_cases[k])

\* C36 witness: IN03 is on and the clearing entry of EEPROM_ClearManualCase(0)
\* is in the list with the bitmap of IN01's first case (IN03 must be off):
\* its identifier (0xFF02, 0x1E) has no bucket
C36_Witness ==
    /\ input_states[2] = 1
    /\ \E k \in ActiveSlots :
          /\ AllZeroClearing(active_cases[k])
          /\ active_cases[k].input_num = 0
          /\ active_cases[k].case_data.must_be_off = Byte0(4)
          /\ ~PrerequisitesHold(active_cases[k])
    /\ \A m \in 1 .. Len(Aggregated) : BucketId(Aggregated[m]) # << 65282, 30 >>

(***************************************************************************)
(* inLINK relay (inlink.c): InLink_ProcessMessage keeps the translated     *)
(* message of a received 0xAXXX frame in a slot of inlink_messages         *)
(***************************************************************************)
\* uint16_t pgn = (can_id >> 8) & 0xFFFF; uint8_t source_addr = can_id & 0xFF
CanIdPgn(can_id) == (can_id \div 256) % 65536

CanIdSourceAddr(can_id) == can_id % 256

\* (pgn & 0x0FFF) | 0xF000
TranslatedPgn(pgn) == (pgn % 4096) + 61440

\* the slots after InLink_ProcessMessage(can_id, data) on the slots given
InLinkSlotsAfter(slots, can_id, data) ==
    LET pgn == CanIdPgn(can_id)
        source_addr == CanIdSourceAddr(can_id)
        translated_pgn == TranslatedPgn(pgn)
        found == { i \in DOMAIN slots : /\ slots[i].valid = 1
                                        /\ slots[i].pgn = translated_pgn
                                        /\ slots[i].source_addr = source_addr }
        empty == { i \in DOMAIN slots : slots[i].valid = 0 }
        empty_index == IF empty = {} THEN 0
                       ELSE CHOOSE i \in empty : \A k \in empty : i <= k
    IN  IF (pgn \div 256) \div 16 # 10 THEN slots
        ELSE IF pgn = 44800 THEN slots
        ELSE IF found # {}
        THEN [slots EXCEPT ![CHOOSE i \in found : \A k \in found : i <= k].data = data]
        ELSE [slots EXCEPT ![empty_index] =
                [ pgn |-> translated_pgn, source_addr |-> source_addr,
                  data |-> data, valid |-> 1 ]]

InLink_ProcessMessage(can_id, data) ==
    /\ inlink_messages' = InLinkSlotsAfter(inlink_messages, can_id, data)
    /\ UNCHANGED << eeprom, EngineVars, input_states, ignition_flag, can_ignition_state,
                 one_button_states, ConfigVars >>

(***************************************************************************)
(* SpecRelay: IN01 and IN03 are switched, the timer interrupt ticks the    *)
(* bank, inLINK frames arrive on IN03's identifier and on two others, and  *)
(* the aggregation is evaluated at several capacities                      *)
(***************************************************************************)
\* 0x18AF011E -> (0xFF01, 0x1E), 0x18AF051E -> (0xFF05, 0x1E),
\* 0x18AF0580 -> (0xFF05, 0x80); 0x18AF001E and 0x18FF011E are not relayed
RelayFrames == {414122270, 414123294, 414123392, 414122014, 419365150}

RelayData == { Byte0(3), <<64, 0, 0, 0, 0, 0, 0, 129>> }

Capacities == {0, 1, 2, MAX_UNIQUE_MESSAGES}

NextRelay ==
    \/ \E i \in ListInputs, s \in {0, 1} :
          DispatchInput(i, s) /\ UNCHANGED << MainVars, HistVars >>
    \/ Tick /\ Rest
    \/ \E id \in RelayFrames, data \in RelayData :
          InLink_ProcessMessage(id, data) /\ UNCHANGED << MainVars, HistVars >>

SpecRelay == Init /\ [][NextRelay]_vars

\* the messages after the merge pass over the active list, before STEP 2
LocalMessages(capacity) ==
    IF capacity = 0 THEN << >>
    ELSE MergeCases(ListSeq(List), pattern_timers,
                    PatternMasks(ListSeq(List), pattern_timers, << >>), << >>, capacity)

AggregatedAt(capacity) == EEPROM_GetAggregatedMessages(List, pattern_timers, capacity)

\* the valid slots before slot i whose identifier has no local bucket
NewRelayedBefore(capacity, i) ==
    { k \in 0 .. (i - 1) :
        /\ inlink_messages[k].valid = 1
        /\ FindId(LocalMessages(capacity), inlink_messages[k].pgn,
                  inlink_messages[k].source_addr) = 0 }

Contains8(x, y) == Or8(x, y) = x

\* C21: for each valid relayed message in slots 0..15 the aggregation ORs its
\* payload into the bucket of its identifier when the merge pass made one,
\* leaving that bucket's priority and pattern flag as they were; otherwise,
\* while fewer than capacity buckets exist, it creates a bucket with
\* priority 6 and the relayed payload.  The relayed payload is wholly in its
\* bucket whatever the pattern phase, the masks and the prerequisites.
C21_RelayMerge ==
    \A capacity \in Capacities, i \in 0 .. (MAX_INLINK_MESSAGES - 1) :
        LET m == inlink_messages[i]
            local == LocalMessages(capacity)
            result == AggregatedAt(capacity)
            j == FindId(local, m.pgn, m.source_addr)
            r == FindId(result, m.pgn, m.source_addr)
        IN  m.valid = 1 =>
              /\ j # 0 => /\ r = j
                          /\ result[j].data = Or8(local[j].data, m.data)
                          /\ result[j].priority = local[j].priority
                          /\ result[j].has_pattern = local[j].has_pattern
              /\ (j = 0 /\ r # 0) => /\ result[r].priority = 6
                                     /\ result[r].data = m.data
              /\ (j = 0 /\ Len(local) + Cardinality(NewRelayedBefore(capacity, i)) < capacity)
                    => r # 0
              /\ r # 0 => Contains8(result[r].data, m.data)

\* C21 witness: IN03's pattern is in its OFF phase, so its bucket holds the
\* relayed 0x03 alone with IN03's flag; a relayed message on an identifier of
\* its own has made a second bucket
C21_Witness ==
    /\ InOffPhase(2)
    /\ Len(Aggregated) = 2
    /\ Aggregated[1].pgn = 65281
    /\ Aggregated[1].has_pattern = 1
    /\ Aggregated[1].data = Byte0(3)
    /\ Aggregated[2].pgn = 65285
    /\ Aggregated[2].priority = 6

(***************************************************************************)
(* SpecCapacity: between calls of the aggregation with a capacity of 0, 1, *)
(* 2 or 24, IN01 and IN03 are switched, the bank ticks and inLINK frames   *)
(* arrive on IN03's identifier and on another                              *)
(***************************************************************************)
CapacityFrames == {414122270, 414123294}

NextCapacity ==
    \/ /\ call = NoReturn
       /\ \E i \in ListInputs, s \in {0, 1} :
             DispatchInput(i, s) /\ UNCHANGED << MainVars, HistVars >>
    \/ /\ call = NoReturn
       /\ Tick /\ Rest
    \/ /\ call = NoReturn
       /\ \E id \in CapacityFrames :
             InLink_ProcessMessage(id, Byte0(3)) /\ UNCHANGED << MainVars, HistVars >>
    \/ \E capacity \in Capacities : CallGetAggregatedMessages(capacity)
    \/ Return

SpecCapacity == Init /\ [][NextCapacity]_vars

\* enough buckets for every entry and every slot
Unbounded == MAX_ACTIVE_CASES + MAX_INLINK_MESSAGES

\* what the aggregation gives at a capacity: n buckets, valid, on pairwise
\* distinct identifiers, the rest of the array invalid, and the same buckets
\* as the first n of an aggregation that drops nothing
CapacityRespected(capacity) ==
    LET msgs == AggregatedAt(capacity)
        array == AggregatedArray(List, pattern_timers, capacity)
        all == AggregatedAt(Unbounded)
        n == Len(msgs)
    IN  /\ n <= capacity
        /\ \A j \in 0 .. (capacity - 1) : array[j].valid = 1 <=> j < n
        /\ \A j, k \in 0 .. (n - 1) :
              j # k => << array[j].pgn, array[j].source_addr >>
                       # << array[k].pgn, array[k].source_addr >>
        /\ n = Min(capacity, Len(all))
        /\ msgs = SubSeq(all, 1, n)

AggregationReturns ==
    /\ call = NoReturn
    /\ call'.fn = "EEPROM_GetAggregatedMessages"

\* C22: EEPROM_GetAggregatedMessages(messages, capacity) returns n <=
\* capacity; messages[0..n-1] are valid and have pairwise distinct (pgn,
\* source_addr), messages[n..capacity-1] are invalid; a contribution that
\* would need a bucket beyond capacity is dropped and the buckets are those
\* a larger capacity gives; the call changes neither the active list nor the
\* pattern timers.
C22_CapacityBound ==
    /\ [](\A capacity \in Capacities : CapacityRespected(capacity))
    /\ [][AggregationReturns =>
            /\ call'.ret = Len(AggregatedAt(call'.flag))
            /\ call'.ret <= call'.flag
            /\ UNCHANGED << active_cases, active_case_count, pattern_timers >>]_vars

\* C22 witness: three identifiers have something to give and the call with
\* capacity 2 has returned 2
C22_Witness ==
    /\ call.fn = "EEPROM_GetAggregatedMessages"
    /\ call.flag = 2
    /\ call.ret = 2
    /\ Len(AggregatedAt(Unbounded)) = 3
    /\ active_case_count > 0
    /\ \E i \in 0 .. (MAX_INLINK_MESSAGES - 1) :
          /\ inlink_messages[i].valid = 1
          /\ FindId(AggregatedAt(2), inlink_messages[i].pgn,
                    inlink_messages[i].source_addr) = 0

(***************************************************************************)
(* TransmitAggregatedMessages (main.c)                                     *)
(***************************************************************************)
\* data_changed of a message against prev_messages[0 .. prev_msg_count-1]
DataChanged(prev, m) ==
    LET j == FindId(prev, m.pgn, m.source_addr)
    IN  IF j = 0 THEN 1
        ELSE IF prev[j].data # m.data THEN 1 ELSE 0

ShouldTransmit(reason, prev, m) ==
    IF reason = BROADCAST_REASON_PATTERN_TICK THEN m.has_pattern = 1
    ELSE IF reason = BROADCAST_REASON_STATE_CHANGE THEN DataChanged(prev, m) = 1
    ELSE FALSE

\* transmitted_this_cycle[0 .. transmitted_count-1]
TransmittedThisCycle(reason, prev, messages) ==
    SelectSeq(messages, LAMBDA m : m.valid = 1 /\ ShouldTransmit(reason, prev, m))

\* the loop that stores what was transmitted into prev_messages
RECURSIVE UpdatePrevMessages(_, _)
UpdatePrevMessages(prev, transmitted) ==
    IF transmitted = << >> THEN prev
    ELSE LET t == Head(transmitted)
             j == FindId(prev, t.pgn, t.source_addr)
         IN  IF j # 0
             THEN UpdatePrevMessages([prev EXCEPT ![j].data = t.data], Tail(transmitted))
             ELSE IF Len(prev) < MAX_UNIQUE_MESSAGES
             THEN UpdatePrevMessages(
                      Append(prev, [ pgn |-> t.pgn, source_addr |-> t.source_addr,
                                     data |-> t.data, valid |-> 1 ]),
                      Tail(transmitted))
             ELSE UpdatePrevMessages(prev, Tail(transmitted))

MessageIds(messages) ==
    { << messages[j].pgn, messages[j].source_addr >> : j \in 1 .. Len(messages) }

\* one transmit cycle: aggregate, compare, transmit, remember, prune.  cycle
\* records the identifiers whose bucket differed from the previous
\* broadcast, those transmitted and those of the one-shot entries pruned.
TransmitAggregatedMessages(reason) ==
    LET messages == EEPROM_GetAggregatedMessages(List, pattern_timers, MAX_UNIQUE_MESSAGES)
        sent == TransmittedThisCycle(reason, prev_messages, messages)
    IN  /\ prev_messages' = UpdatePrevMessages(prev_messages, sent)
        /\ active_cases' = RemoveMarkedList(List).cases
        /\ active_case_count' = RemoveMarkedList(List).count
        /\ cycle' = [ reason |-> reason,
                      changed |-> MessageIds(SelectSeq(messages,
                                     LAMBDA m : DataChanged(prev_messages, m) = 1)),
                      sent |-> MessageIds(sent),
                      pruned |-> { Id(active_cases[k]) :
                                     k \in { j \in 0 .. (active_case_count - 1) :
                                               active_cases[j].needs_removal_after_send # 0 } } ]
        /\ UNCHANGED << eeprom, pattern_timers, bounds_errors >>

(***************************************************************************)
(* SpecMain: the foreground loop of main() and the timer interrupt.  The   *)
(* loop handles pattern_changed, then state_changed, then scans the inputs *)
(* and dispatches every changed input.  Timer 1 interrupts are enabled     *)
(* while EEPROM_HandleInputChange runs (main.c re-enables T1IE before the  *)
(* call), so the interrupt can run between any two of its stores to the    *)
(* timer bank.  The interrupt only touches the timer bank and              *)
(* pattern_changed: the list part of the call and a deactivation, whose    *)
(* first store makes the timer Inactive, are single steps.                 *)
(***************************************************************************)
MainInputs == {0, 2}

InitMain ==
    /\ eeprom = Provisioning(17)
    /\ InitEngine
    /\ pc = "pattern"

\* _T1Interrupt on the tick that wraps pattern_timer
T1Interrupt ==
    /\ Tick
    /\ pattern_changed' = 1
    /\ UNCHANGED << InputVars, prev_messages, state_changed, prev_input_states,
                    pc, fg, HistVars >>

\* if(pattern_changed) { ... TransmitAggregatedMessages(PATTERN_TICK) ... }
PatternCycle ==
    /\ pc = "pattern"
    /\ IF pattern_changed = 1
       THEN /\ pattern_changed' = 0
            /\ TransmitAggregatedMessages(BROADCAST_REASON_PATTERN_TICK)
       ELSE UNCHANGED << eeprom, EngineVars, prev_messages, pattern_changed, cycle >>
    /\ pc' = "state"
    /\ UNCHANGED << InputVars, state_changed, prev_input_states, fg, ticks, call >>

\* if(state_changed) { ... TransmitAggregatedMessages(STATE_CHANGE) ... }
StateCycle ==
    /\ pc = "state"
    /\ IF state_changed = 1
       THEN /\ state_changed' = 0
            /\ TransmitAggregatedMessages(BROADCAST_REASON_STATE_CHANGE)
       ELSE UNCHANGED << eeprom, EngineVars, prev_messages, state_changed, cycle >>
    /\ pc' = "scan"
    /\ UNCHANGED << InputVars, pattern_changed, prev_input_states, fg, ticks, call >>

\* Inputs_Scan: the debounced states of the driven inputs settle on the
\* readings; none of them is an ignition or a one-button-start input
InputsScan ==
    /\ pc = "scan"
    /\ \E readings \in [MainInputs -> {0, 1}] :
          input_states' = [i \in DOMAIN input_states |->
                             IF i \in MainInputs THEN readings[i] ELSE input_states[i]]
    /\ pc' = "dispatch"
    /\ fg' = NoCall
    /\ UNCHANGED << eeprom, EngineVars, ignition_flag, can_ignition_state,
                 one_button_states, inlink_messages, ConfigVars, prev_messages, pattern_changed,
                    state_changed, prev_input_states, HistVars >>

\* the next index of the dispatch loop whose state differs from
\* prev_input_states, TOTAL_INPUTS when the loop has no more
NextChanged(from) ==
    LET changed == { i \in from .. (TOTAL_INPUTS - 1) :
                       Inputs_GetState(i) # prev_input_states[i] }
    IN  IF changed = {} THEN TOTAL_INPUTS
        ELSE CHOOSE i \in changed : \A j \in changed : i <= j

DispatchDone ==
    /\ pc = "dispatch"
    /\ NextChanged(fg.input) = TOTAL_INPUTS
    /\ pc' = "pattern"
    /\ fg' = NoCall
    /\ UNCHANGED << eeprom, EngineVars, InputVars, prev_messages, pattern_changed,
                    state_changed, prev_input_states, HistVars >>

\* current_state = 0: EEPROM_HandleInputChange(i, 0)
DispatchOff ==
    LET i == NextChanged(fg.input)
    IN  /\ pc = "dispatch"
        /\ i < TOTAL_INPUTS
        /\ Inputs_GetState(i) = 0
        /\ prev_input_states' = [prev_input_states EXCEPT ![i] = 0]
        /\ IF EEPROM_IsOneButtonStartInput(i)
           THEN UNCHANGED << eeprom, EngineVars >>
           ELSE HandleInputChange(i, 0)
        /\ fg' = [NoCall EXCEPT !.input = i]
        /\ pc' = "dispatched"
        /\ UNCHANGED << InputVars, prev_messages, pattern_changed, state_changed, HistVars >>

\* current_state = 1: EEPROM_HandleInputChange(i, 1) up to its timer stores
DispatchOn ==
    LET i == NextChanged(fg.input)
        r == HandleInputChangeList(List, i, 1)
    IN  /\ pc = "dispatch"
        /\ i < TOTAL_INPUTS
        /\ Inputs_GetState(i) = 1
        /\ prev_input_states' = [prev_input_states EXCEPT ![i] = 1]
        /\ IF EEPROM_IsOneButtonStartInput(i)
           THEN /\ UNCHANGED << active_cases, active_case_count, bounds_errors >>
                /\ fg' = [NoCall EXCEPT !.input = i]
                /\ pc' = "dispatched"
           ELSE /\ bounds_errors + r.errs <= MaxBoundsErrors
                /\ active_cases' = r.list.cases
                /\ active_case_count' = r.list.count
                /\ bounds_errors' = bounds_errors + r.errs
                /\ fg' = [ input |-> i, has_pattern |-> r.has_pattern,
                           on_time |-> r.on_time, off_time |-> r.off_time,
                           calls |-> << >> ]
                /\ pc' = IF r.has_pattern = 1 THEN "arm_has_pattern"
                         ELSE "clear_has_pattern"
        /\ UNCHANGED << eeprom, pattern_timers, InputVars, prev_messages,
                        pattern_changed, state_changed, HistVars >>

\* one store of the call in progress to pattern_timers[input_num]
TimerStore(at, t, next) ==
    /\ pc = at
    /\ pattern_timers' = [pattern_timers EXCEPT ![fg.input] = t]
    /\ pc' = next
    /\ UNCHANGED << eeprom, active_cases, active_case_count, bounds_errors,
                    InputVars, prev_messages, pattern_changed, state_changed,
                    prev_input_states, fg, HistVars >>

ArmHasPattern ==
    TimerStore("arm_has_pattern",
               [pattern_timers[fg.input] EXCEPT !.has_pattern = 1], "arm_on_time")

ArmOnTime ==
    TimerStore("arm_on_time",
               [pattern_timers[fg.input] EXCEPT !.on_time = fg.on_time], "arm_off_time")

ArmOffTime ==
    TimerStore("arm_off_time",
               [pattern_timers[fg.input] EXCEPT !.off_time = fg.off_time], "arm_state")

ArmState ==
    TimerStore("arm_state",
               [pattern_timers[fg.input] EXCEPT !.state = PATTERN_STATE_ON_PHASE],
               "arm_timer")

ArmTimer ==
    TimerStore("arm_timer",
               [pattern_timers[fg.input] EXCEPT !.timer = fg.on_time], "dispatched")

ClearHasPattern ==
    TimerStore("clear_has_pattern",
               [pattern_timers[fg.input] EXCEPT !.has_pattern = 0], "clear_state")

ClearState ==
    TimerStore("clear_state",
               [pattern_timers[fg.input] EXCEPT !.state = PATTERN_STATE_INACTIVE],
               "clear_timer")

ClearTimer ==
    TimerStore("clear_timer",
               [pattern_timers[fg.input] EXCEPT !.timer = 0], "dispatched")

\* state_changed = 1 after the call; the loop goes on with the next index
Dispatched ==
    /\ pc = "dispatched"
    /\ state_changed' = 1
    /\ fg' = [NoCall EXCEPT !.input = fg.input + 1]
    /\ pc' = "dispatch"
    /\ UNCHANGED << eeprom, EngineVars, InputVars, prev_messages, pattern_changed,
                    prev_input_states, HistVars >>

NextMain ==
    \/ T1Interrupt
    \/ PatternCycle
    \/ StateCycle
    \/ InputsScan
    \/ DispatchDone
    \/ DispatchOff
    \/ DispatchOn
    \/ ArmHasPattern
    \/ ArmOnTime
    \/ ArmOffTime
    \/ ArmState
    \/ ArmTimer
    \/ ClearHasPattern
    \/ ClearState
    \/ ClearTimer
    \/ Dispatched

SpecMain == InitMain /\ [][NextMain]_vars

(***************************************************************************)
(* SpecOffCase: the main loop and the interrupt on a store whose OFF case  *)
(* of IN01 has an identifier of its own                                    *)
(***************************************************************************)
InitOffCase ==
    /\ eeprom = OffCaseProvisioning
    /\ InitEngine
    /\ pc = "pattern"

SpecOffCase == InitOffCase /\ [][NextMain]_vars

\* an entry loaded from a valid OFF case of the store
IsOffCaseEntry(e) ==
    /\ e.input_num < TOTAL_INPUTS
    /\ e.is_on_case = 0
    /\ e.needs_removal_after_send = 1
    /\ e.case_num < input_off_case_count[e.input_num + 1]
    /\ EEPROM_ReadCase(OffAddr(e.input_num, e.case_num)).valid = 1
    /\ e.case_data = EEPROM_ReadCase(OffAddr(e.input_num, e.case_num))

\* the step is a call of TransmitAggregatedMessages
TransmitStep ==
    /\ \/ pc = "pattern" /\ pattern_changed = 1
       \/ pc = "state" /\ state_changed = 1
    /\ pc' # pc

StateChangeStep ==
    /\ pc = "state" /\ state_changed = 1
    /\ pc' # pc

\* C24: every deactivation of an input with a valid OFF case has that OFF
\* case's message transmitted before its one-shot entry is removed: the
\* transmit cycle that prunes the entry transmits its identifier, on the
\* second and later deactivations as on the first, whatever was last
\* broadcast for the identifier.
C24_OffCaseSentEachTime ==
    [][TransmitStep =>
         \A k \in 0 .. (active_case_count - 1) :
            IsOffCaseEntry(active_cases[k]) => Id(active_cases[k]) \in cycle'.sent]_vars

\* the same for the cycles that run for a state change alone
C24_OffCaseSentByStateCycle ==
    [][StateChangeStep =>
         \A k \in 0 .. (active_case_count - 1) :
            IsOffCaseEntry(active_cases[k]) => Id(active_cases[k]) \in cycle'.sent]_vars

\* C24 witness: IN01 has been deactivated again; its OFF entry is listed,
\* the state-change cycle is about to run, and the OFF message was the last
\* thing broadcast on its identifier
C24_Witness ==
    /\ pc = "state"
    /\ state_changed = 1
    /\ \E k \in 0 .. (active_case_count - 1) :
          /\ IsOffCaseEntry(active_cases[k])
          /\ \E j \in 1 .. Len(prev_messages) :
                /\ prev_messages[j].pgn = active_cases[k].case_data.pgn
                /\ prev_messages[j].source_addr = active_cases[k].case_data.source_addr
                /\ prev_messages[j].data = active_cases[k].case_data.data

(***************************************************************************)
(* Claims checked under SpecMain                                           *)
(***************************************************************************)
\* C2: in every transmit cycle, whatever its reason, a one-shot entry is
\* pruned only if its bucket was transmitted in that cycle or did not differ
\* from the previous broadcast for its identifier; so the clearing message
\* of a deactivated input is transmitted before its entry leaves the list.
C2_PrunedAfterTransmission ==
    (cycle.pruned \cap cycle.changed) \subseteq cycle.sent

(***************************************************************************)
(* The sources of the ignition state (inputs.c): the regular ignition      *)
(* inputs, the one-button start and the CAN ignition bit.  None of these   *)
(* functions reads the active list: each operator takes ignition_flag, the *)
(* one-button entry and one_button_state_changed together with the engine  *)
(* calls made so far, in order, and gives them after the function.         *)
(* MakeNextCall then runs the calls, one by one, on the list and the bank. *)
(***************************************************************************)
Foreground ==
    [ ignition_flag |-> ignition_flag, one_button |-> one_button_states,
      calls |-> << >>, changed |-> 0 ]

EngineCall(fn, input_num, arg) == [ fn |-> fn, input_num |-> input_num, arg |-> arg ]

\* IsIgnitionInput: config bits 0-1 of the first ON case = 01
IsIgnitionInput(input_num) ==
    IF input_num >= TOTAL_INPUTS THEN FALSE
    ELSE LET base_address == EEPROM_GetCaseAddress(input_num, 0, TRUE)
         IN  IF base_address = INVALID_ADDRESS THEN FALSE
             ELSE ReadEEPROMByte(base_address + 4) % 4 = 1

\* EEPROM_UpdateIgnitionTrackedCases(f) called by the foreground
TrackedUpdate(st, f) ==
    [st EXCEPT !.calls = Append(@, EngineCall("EEPROM_UpdateIgnitionTrackedCases", 0, f))]

\* EEPROM_SetManualCase(input_num, 1, starter_on) called by the foreground
ManualOn(st, input_num, starter_on) ==
    [st EXCEPT !.calls = Append(@, EngineCall("EEPROM_SetManualCase", input_num, starter_on))]

\* EEPROM_ClearManualCase(input_num) called by the foreground
ManualOff(st, input_num) ==
    [st EXCEPT !.calls = Append(@, EngineCall("EEPROM_ClearManualCase", input_num, 0))]

\* EEPROM_SetManualCase(input_num, 1, 0); ignition_flag = 1;
\* EEPROM_UpdateIgnitionTrackedCases(ignition_flag); one_button_state_changed = 1
TurnIgnitionOn(st, input_num) ==
    TrackedUpdate([ManualOn(st, input_num, 0) EXCEPT !.ignition_flag = 1, !.changed = 1], 1)

\* EEPROM_ClearManualCase(input_num); ignition_flag = 0;
\* EEPROM_UpdateIgnitionTrackedCases(ignition_flag); one_button_state_changed = 1
TurnIgnitionOff(st, input_num) ==
    TrackedUpdate([ManualOff(st, input_num) EXCEPT !.ignition_flag = 0, !.changed = 1], 0)

\* HandleOneButtonStart(input_num) with input_states[input_num] =
\* current_button_state; held_long: the press has lasted
\* ONE_BUTTON_FUEL_PUMP_DELAY_MS; neutral: input_states[15]
HandleOneButtonStart(st, input_num, current_button_state, held_long, neutral) ==
    LET state == st.one_button
    IN  IF current_button_state = 1 /\ state.active = 0
        THEN [st EXCEPT !.one_button =
                 [state EXCEPT !.active = 1, !.ignition_was_on = state.ignition_is_on,
                               !.ignition_set_this_press = 0]]
        ELSE IF current_button_state = 0 /\ state.active = 1
        THEN IF state.ignition_was_on = 1
             THEN [TurnIgnitionOff(st, input_num) EXCEPT !.one_button =
                      [state EXCEPT !.ignition_is_on = 0, !.starter_is_on = 0, !.active = 0]]
             ELSE [TurnIgnitionOn(st, input_num) EXCEPT !.one_button =
                      [state EXCEPT !.ignition_is_on = 1, !.starter_is_on = 0, !.active = 0]]
        ELSE IF current_button_state = 1 /\ state.active = 1
        THEN LET first == IF state.ignition_was_on = 0 /\ state.ignition_set_this_press = 0
                          THEN [TurnIgnitionOn(st, input_num) EXCEPT !.one_button =
                                   [state EXCEPT !.ignition_is_on = 1, !.starter_is_on = 0,
                                                 !.ignition_set_this_press = 1]]
                          ELSE st
             IN  IF /\ held_long
                    /\ state.ignition_was_on = 0
                    /\ first.one_button.starter_is_on = 0
                    /\ neutral = 1
                 THEN [ManualOn(first, input_num, 1) EXCEPT
                          !.one_button = [first.one_button EXCEPT !.starter_is_on = 1,
                                                                  !.ignition_is_on = 1],
                          !.changed = 1]
                 ELSE first
        ELSE st

\* Inputs_UpdateIgnitionFlag with the debounced states given
Inputs_UpdateIgnitionFlag(st, states) ==
    LET any_ignition_on ==
            Bool(\E i \in 0 .. (TOTAL_INPUTS - 1) :
                    /\ IsIgnitionInput(i)
                    /\ ~EEPROM_IsOneButtonStartInput(i)
                    /\ states[i] = 1)
    IN  IF any_ignition_on # st.ignition_flag
        THEN [TrackedUpdate([st EXCEPT !.ignition_flag = any_ignition_on], any_ignition_on)
                 EXCEPT !.changed = 1]
        ELSE st

\* the one-button-start input of the store
OneButtonInput == 1

\* Inputs_Scan: the debounced states settle on states
Inputs_Scan(st, states, held_long) ==
    LET changed == { i \in DOMAIN states : states[i] # input_states[i] }
        pressed == IF OneButtonInput \in changed /\ EEPROM_IsOneButtonStartInput(OneButtonInput)
                   THEN HandleOneButtonStart(st, OneButtonInput, states[OneButtonInput],
                                             FALSE, states[15])
                   ELSE st
        flagged == IF \E i \in changed : ~EEPROM_IsOneButtonStartInput(i) /\ IsIgnitionInput(i)
                   THEN Inputs_UpdateIgnitionFlag(pressed, states)
                   ELSE pressed
    IN  IF flagged.one_button.active = 1
        THEN HandleOneButtonStart(flagged, OneButtonInput, states[OneButtonInput],
                                  held_long /\ OneButtonInput \notin changed, states[15])
        ELSE flagged

\* the body of main()'s dispatch loop for index i
DispatchChanged(st, i, states) ==
    IF states[i] # prev_input_states[i] /\ ~EEPROM_IsOneButtonStartInput(i)
    THEN [st EXCEPT !.calls = Append(@, EngineCall("EEPROM_HandleInputChange", i, states[i]))]
    ELSE st

(***************************************************************************)
(* SpecSources: the ignition input IN01, the one-button start IN02 with    *)
(* the neutral switch IN16, and the CAN ignition bit of the 0xAF00         *)
(* messages, each handled by the main loop as a whole, in any order, and   *)
(* the pruning of the transmit cycle                                       *)
(***************************************************************************)
SourceInputs == {0, 1, 15}

InitSources ==
    /\ eeprom = SourcesProvisioning
    /\ InitEngine
    /\ pc = "can"

\* the history of the calls keeps the last EEPROM_UpdateIgnitionTrackedCases
TrackedCall(c) ==
    IF c.fn = "EEPROM_UpdateIgnitionTrackedCases"
    THEN [NoReturn EXCEPT !.fn = c.fn, !.flag = c.arg]
    ELSE call

\* Outputs_ProcessMessage on a 0xAF00 message with the ignition bit given:
\* Inputs_SetCANIgnition(state), up to its engine call
Inputs_SetCANIgnition(state) ==
    LET st == IF state # can_ignition_state
              THEN TrackedUpdate(Foreground, IF ignition_flag = 1 \/ state = 1 THEN 1 ELSE 0)
              ELSE Foreground
    IN  /\ fg.calls = << >>
        /\ can_ignition_state' = state
        /\ fg' = [fg EXCEPT !.calls = st.calls]
        /\ UNCHANGED << eeprom, EngineVars, input_states, ignition_flag,
                        one_button_states, inlink_messages, ConfigVars, prev_messages,
                        pattern_changed, state_changed, prev_input_states, HistVars >>

\* if(scan_timer == 0) { Inputs_Scan(); .. the dispatch loop .. } with the
\* debounced states settling on the readings, up to its engine calls
ScanAndDispatch(readings, held_long) ==
    LET states == [i \in DOMAIN input_states |->
                     IF i \in DOMAIN readings THEN readings[i] ELSE input_states[i]]
        scanned == Inputs_Scan(Foreground, states, held_long)
        st == DispatchChanged(DispatchChanged(DispatchChanged(scanned, 0, states),
                                              1, states), 15, states)
    IN  /\ fg.calls = << >>
        /\ input_states' = states
        /\ prev_input_states' = states
        /\ ignition_flag' = st.ignition_flag
        /\ one_button_states' = st.one_button
        /\ state_changed' = IF st.changed = 1 \/ states # prev_input_states
                            THEN 1 ELSE state_changed
        /\ fg' = [fg EXCEPT !.calls = st.calls]
        /\ UNCHANGED << eeprom, EngineVars, can_ignition_state, inlink_messages,
                        ConfigVars, prev_messages, pattern_changed, HistVars >>

\* the next engine call of the function in progress
MakeNextCall ==
    /\ fg.calls # << >>
    /\ LET c == Head(fg.calls)
       IN  /\ \/ c.fn = "EEPROM_UpdateIgnitionTrackedCases" /\ UpdateIgnitionTrackedCases(c.arg)
              \/ c.fn = "EEPROM_SetManualCase" /\ SetManualCase(c.input_num, 1, c.arg)
              \/ c.fn = "EEPROM_ClearManualCase" /\ ClearManualCase(c.input_num)
              \/ c.fn = "EEPROM_HandleInputChange" /\ HandleInputChange(c.input_num, c.arg)
           /\ call' = TrackedCall(c)
    /\ fg' = [fg EXCEPT !.calls = Tail(@)]
    /\ UNCHANGED << InputVars, prev_messages, pattern_changed, state_changed,
                    prev_input_states, pc, cycle, ticks >>

\* the readings of a scan in which input i has changed
Flipped(i) == [j \in {i} |-> 1 - input_states[i]]

NextSources ==
    \/ \E state \in {0, 1} : Inputs_SetCANIgnition(state) /\ UNCHANGED pc
    \/ \E i \in SourceInputs, held_long \in BOOLEAN :
          /\ held_long => i = OneButtonInput
          /\ ScanAndDispatch(Flipped(i), held_long)
          /\ UNCHANGED pc
    \/ MakeNextCall
    \/ fg.calls = << >> /\ RemoveMarkedCases /\ Rest

SpecSources == InitSources /\ [][NextSources]_vars

\* C37: when a function has made its calls, after any sequence of changes of the ignition input, one-button
\* start actions and CAN ignition updates, the argument last passed to
\* EEPROM_UpdateIgnitionTrackedCases is the state Inputs_GetIgnitionState
\* returns (ignition_flag OR can_ignition_state), the state the prerequisite
\* evaluator reads.
C37_TrackedFollowsEffective ==
    (fg.calls = << >> /\ call.fn = "EEPROM_UpdateIgnitionTrackedCases")
        => call.flag = Inputs_GetIgnitionState

\* what holds: the argument last passed is ignition_flag, or the effective
\* state when the call came from a CAN ignition update
C37_TrackedFollowsFlagOrEffective ==
    (fg.calls = << >> /\ call.fn = "EEPROM_UpdateIgnitionTrackedCases")
        => call.flag \in { ignition_flag, Inputs_GetIgnitionState }

\* C37 witness: the CAN ignition bit is on and the ignition input has gone
\* on and off again: the last call passed 0 and removed the tracked case
\* while the evaluator reads the ignition as on
C37_Witness ==
    /\ fg.calls = << >>
    /\ call.fn = "EEPROM_UpdateIgnitionTrackedCases"
    /\ call.flag = 0
    /\ can_ignition_state = 1
    /\ ignition_flag = 0
    /\ input_states[0] = 0
    /\ one_button_states.ignition_is_on = 0
    /\ Inputs_GetIgnitionState = 1
    /\ ~HoldsTrackedEntry

(***************************************************************************)
(* SpecLoop: the foreground loop of main() with its CAN receive loop: a    *)
(* 0xAF00 message is handled, then pattern_changed, then state_changed,    *)
(* then the inputs are scanned and dispatched.  The store wires the        *)
(* ignition input IN01 or the one-button start IN02, and the scans see the *)
(* wired input change.                                                     *)
(***************************************************************************)
LoopInputs == {0, 1}

InitLoop ==
    /\ eeprom \in { LoopProvisioning(i) : i \in LoopInputs }
    /\ InitEngine
    /\ pc = "can"

\* ProcessPendingCANMessages: Outputs_ProcessMessage on a 0xAF00 message,
\* after which main only reloads can_rx_led_timer
ReceiveCAN ==
    /\ pc = "can"
    /\ \E state \in {0, 1} : Inputs_SetCANIgnition(state)
    /\ pc' = "received"

\* if(scan_timer == 0): Inputs_Scan and the dispatch loop, which sets
\* state_changed for a changed input and for one_button_state_changed
ScanCycle ==
    /\ pc = "scan"
    /\ \/ \E i \in LoopInputs :
             FirstOnCase(i).valid = 1 /\ ScanAndDispatch(Flipped(i), FALSE)
       \/ ScanAndDispatch(<< >>, FALSE)
    /\ pc' = "scanned"

\* the calls are made: the loop goes on
CallsMade ==
    /\ pc \in {"received", "scanned"}
    /\ fg.calls = << >>
    /\ pc' = IF pc = "received" THEN "pattern" ELSE "can"
    /\ UNCHANGED << eeprom, EngineVars, InputVars, prev_messages, pattern_changed,
                    state_changed, prev_input_states, fg, HistVars >>

NextLoop ==
    \/ T1Interrupt
    \/ ReceiveCAN
    \/ MakeNextCall
    \/ CallsMade
    \/ PatternCycle
    \/ StateCycle
    \/ ScanCycle

SpecLoop == InitLoop /\ [][NextLoop]_vars

\* the step is an engine call of the receive loop or of the scan and changes
\* the list
ListChangedByCall ==
    /\ fg.calls # << >>
    /\ << active_cases', active_case_count' >> # << active_cases, active_case_count >>

\* C38: every engine call of the running program that changes the active
\* list (an input transition, a one-button manual set or clear, a tracked
\* update from an ignition input or from a CAN ignition message) leaves
\* state_changed set, and no pattern-tick transmit cycle changes the list
\* while state_changed is set: the state-change cycle runs first with the
\* new entries.
C38_ListChangeSetsFlag ==
    /\ [][ListChangedByCall => state_changed' = 1]_vars
    /\ [][(pc = "pattern" /\ state_changed = 1)
            => << active_cases', active_case_count' >> = << active_cases, active_case_count >>]_vars

\* what holds: the scan leaves state_changed set whenever it changes the list
C38_ScanSetsFlag ==
    [][(pc = "scanned" /\ ListChangedByCall) => state_changed' = 1]_vars

\* C38 witness: a CAN ignition message has loaded the tracked case, no
\* input has changed, and state_changed is clear when the loop reaches its
\* pattern-tick cycle
C38_Witness ==
    /\ pc = "pattern"
    /\ call.fn = "EEPROM_UpdateIgnitionTrackedCases"
    /\ call.flag = 1
    /\ can_ignition_state = 1
    /\ HoldsTrackedEntry
    /\ state_changed = 0
    /\ \A i \in DOMAIN input_states : input_states[i] = 0

(***************************************************************************)
(* SpecArming: the main loop and the interrupt on a store whose pattern    *)
(* byte of IN03 is 0x21: two ticks on, one tick off                        *)
(***************************************************************************)
InitArming ==
    /\ eeprom = Provisioning(33)
    /\ InitEngine
    /\ pc = "pattern"

SpecArming == InitArming /\ [][NextMain]_vars

\* the foreground is between two stores of EEPROM_HandleInputChange to the
\* timer of the input it dispatches
InsideTimerStores ==
    pc \in { "arm_has_pattern", "arm_on_time", "arm_off_time", "arm_state", "arm_timer",
             "clear_has_pattern", "clear_state", "clear_timer" }

FlagMatchesPhase(t) == t.has_pattern = 1 <=> t.state # PATTERN_STATE_INACTIVE

InactiveAtZero(t) == t.state = PATTERN_STATE_INACTIVE => t.timer = 0

WithinPhase(t) ==
    /\ t.state = PATTERN_STATE_ON_PHASE => t.timer <= t.on_time
    /\ t.state = PATTERN_STATE_OFF_PHASE => t.timer <= t.off_time

\* C35: in every state of the running program, with the tick made by the
\* timer interrupt and the other engine calls by the main loop, every timer
\* has has_pattern set exactly when its phase is not INACTIVE, an INACTIVE
\* timer has countdown 0, and the countdown is at most the duration of the
\* phase the timer is in, hence at most 15.
C35_TimersConsistent ==
    \A i \in DOMAIN pattern_timers :
        /\ FlagMatchesPhase(pattern_timers[i])
        /\ InactiveAtZero(pattern_timers[i])
        /\ WithinPhase(pattern_timers[i])
        /\ pattern_timers[i].timer <= 15

\* what holds: the countdown is at most 15 and an INACTIVE timer has
\* countdown 0 in every state, and the flag matches the phase whenever the
\* foreground is not between its stores to the timer
C35_ConsistentButPhaseBound ==
    \A i \in DOMAIN pattern_timers :
        /\ pattern_timers[i].timer <= 15
        /\ InactiveAtZero(pattern_timers[i])
        /\ ~InsideTimerStores => FlagMatchesPhase(pattern_timers[i])

\* C35 witness: the activation of IN03 has made its last store and the
\* timer is in the OFF phase, which lasts one tick, with a countdown of two
C35_Witness ==
    /\ ~InsideTimerStores
    /\ pattern_timers[2].has_pattern = 1
    /\ pattern_timers[2].state = PATTERN_STATE_OFF_PHASE
    /\ pattern_timers[2].off_time = 1
    /\ pattern_timers[2].timer = 2

\* C8: no tick of the timer bank runs inside a foreground engine call, so a
\* call leaves the bank as if it had run atomically: when an activation that
\* arms the timer makes its last store, the timer is in the ON phase with
\* the whole on-duration as its countdown.
C8_CallsRunAtomically ==
    [][ ArmTimer =>
          pattern_timers'[fg.input] =
              ConfigureTimer(pattern_timers[fg.input], 1, fg.on_time, fg.off_time) ]_vars

====
